---- MODULE Spec2Model ----
(***************************************************************************)
(* A model of the bead core (codedthinking/bead, rust/src): archives and   *)
(* their extraction, the workspace input lifecycle, and box discovery.     *)
(*                                                                         *)
(* Strings are sequences of one-character strings, so that the textual     *)
(* checks of the code (contains(".."), starts_with("data/"), split('_'))   *)
(* are computed as the code computes them.  A path is the sequence of its  *)
(* components; the filesystem maps real (symlink-free) absolute paths to   *)
(* directories and files and holds symbolic links, and every operation on  *)
(* it follows POSIX: path resolution through links and "..", permission    *)
(* bits checked for a non-privileged owner.                                *)
(***************************************************************************)
EXTENDS Integers, Sequences, FiniteSets, TLC

VARIABLES
    privileged,   \* the process runs as root (permission bits are not enforced)
    fs,           \* the filesystem: [dirs, files, links, clock]
    arch,         \* the entries of the archive at hand, in container order
    dest,         \* the destination directory handed to an extraction
    ws,           \* the Workspace value in memory: [directory, meta, input_map]
    thr,          \* the threads inside Box::store: where each one is
    ret,          \* what the last operation returned
    steps         \* operations performed so far

vars == <<privileged, fs, arch, dest, ws, thr, ret, steps>>

(***************************************************************************)
(* Bounds of the model.                                                    *)
(***************************************************************************)
MaxEntries == 2
MaxExtractOps == 1
MaxWsOps == 4

(***************************************************************************)
(* Strings (str methods used by the code).                                 *)
(***************************************************************************)
starts_with(s, p) ==
    Len(p) <= Len(s) /\ SubSeq(s, 1, Len(p)) = p

ends_with(s, p) ==
    Len(p) <= Len(s) /\ SubSeq(s, Len(s) - Len(p) + 1, Len(s)) = p

contains(s, p) ==
    \E i \in 1..(Len(s) - Len(p) + 1) : SubSeq(s, i, i + Len(p) - 1) = p

RECURSIVE trim_start_matches(_, _)
trim_start_matches(s, c) ==
    IF s # <<>> /\ Head(s) = c THEN trim_start_matches(Tail(s), c) ELSE s

\* &s[n..]
SliceFrom(s, n) ==
    SubSeq(s, n + 1, Len(s))

Slash == <<"/">>
Dot == <<".">>
DotDot == <<".", ".">>
S_data == <<"d", "a", "t", "a">>
S_code == <<"c", "o", "d", "e">>
DATA_PREFIX == S_data \o Slash
CODE_PREFIX == S_code \o Slash

(***************************************************************************)
(* std::path: a path string as its components.  Repeated separators and    *)
(* "." components vanish, ".." components are kept; joining an absolute    *)
(* path replaces the base.                                                 *)
(***************************************************************************)
RECURSIVE SplitAcc(_, _, _)
SplitAcc(s, cur, acc) ==
    IF s = <<>>
    THEN (IF cur = <<>> THEN acc ELSE Append(acc, cur))
    ELSE IF Head(s) = "/"
         THEN SplitAcc(Tail(s), <<>>, IF cur = <<>> THEN acc ELSE Append(acc, cur))
         ELSE SplitAcc(Tail(s), Append(cur, Head(s)), acc)

components(s) ==
    SelectSeq(SplitAcc(s, <<>>, <<>>), LAMBDA c : c # Dot)

is_absolute(s) ==
    s # <<>> /\ Head(s) = "/"

\* base.join(s), base an absolute path given by its components
join(base, s) ==
    IF is_absolute(s) THEN components(s) ELSE base \o components(s)

parent(p) ==
    IF p = <<>> THEN <<>> ELSE SubSeq(p, 1, Len(p) - 1)

\* Path::file_name: the last component when it is a normal one
has_file_name(s) ==
    components(s) # <<>> /\ components(s)[Len(components(s))] # DotDot

file_name(s) ==
    components(s)[Len(components(s))]

\* Path::starts_with compares whole components
path_starts_with(p, base) ==
    Len(base) <= Len(p) /\ SubSeq(p, 1, Len(base)) = base

(***************************************************************************)
(* The filesystem.  Modes are the numbers the code passes to set_mode     *)
(* (0o755 = 493, 0o555 = 365) and what open(2)/mkdir(2) give under the     *)
(* usual umask 022 (0o644 = 420, 0o755).                                   *)
(***************************************************************************)
MODE_RW == 493
MODE_RO == 365
MODE_FILE == 420

OwnerWritable(mode) ==
    (mode \div 128) % 2 = 1

MayWrite(mode) ==
    privileged \/ OwnerWritable(mode)

OwnerReadable(mode) ==
    (mode \div 256) % 2 = 1

MayRead(mode) ==
    privileged \/ OwnerReadable(mode)

Fail(f) == [ok |-> FALSE, fs |-> f]
Done(f) == [ok |-> TRUE, fs |-> f]

\* The({ e : x \in {v} }) is e with x bound to the value of v, computed once.
The(S) == CHOOSE x \in S : TRUE

\* namei over directory components: the real path of the directory reached
RECURSIVE WalkDirs(_, _, _)
WalkDirs(f, cur, comps) ==
    IF comps = <<>>
    THEN [ok |-> TRUE, path |-> cur]
    ELSE The({ IF to \in DOMAIN f.dirs
               THEN WalkDirs(f, to, Tail(comps))
               ELSE [ok |-> FALSE, path |-> <<>>] :
               to \in { IF Head(comps) = DotDot THEN parent(cur)
                        ELSE IF Append(cur, Head(comps)) \in DOMAIN f.links
                             THEN f.links[Append(cur, Head(comps))]
                        ELSE Append(cur, Head(comps)) } })

\* the real path a lexical absolute path names (the object need not exist)
Resolve(f, p, follow) ==
    IF p = <<>>
    THEN [ok |-> TRUE, path |-> <<>>]
    ELSE The({ IF ~d.ok THEN d
               ELSE IF p[Len(p)] = DotDot THEN [ok |-> TRUE, path |-> parent(d.path)]
               ELSE IF follow /\ Append(d.path, p[Len(p)]) \in DOMAIN f.links
                    THEN [ok |-> TRUE, path |-> f.links[Append(d.path, p[Len(p)])]]
               ELSE [ok |-> TRUE, path |-> Append(d.path, p[Len(p)])] :
               d \in {WalkDirs(f, <<>>, parent(p))} })

Exists(f, real) ==
    real \in DOMAIN f.dirs \/ real \in DOMAIN f.files

\* Path::canonicalize: fails unless the object exists
canonicalize(f, p) ==
    The({ IF r.ok /\ Exists(f, r.path) THEN r ELSE [ok |-> FALSE, path |-> <<>>] :
          r \in {Resolve(f, p, TRUE)} })

is_dir(f, p) ==
    \E r \in {Resolve(f, p, TRUE)} : r.ok /\ r.path \in DOMAIN f.dirs

path_exists(f, p) ==
    canonicalize(f, p).ok

\* mkdir(2): the parent must resolve, the name must be free, the parent writable
mkdir(f, p) ==
    IF p = <<>> THEN Fail(f)
    ELSE The({ IF ~d.ok THEN Fail(f)
               ELSE IF p[Len(p)] = DotDot THEN Fail(f)
               ELSE IF Exists(f, Append(d.path, p[Len(p)]))
                       \/ Append(d.path, p[Len(p)]) \in DOMAIN f.links THEN Fail(f)
               ELSE IF ~MayWrite(f.dirs[d.path]) THEN Fail(f)
               ELSE Done([f EXCEPT !.dirs = (Append(d.path, p[Len(p)]) :> MODE_RW) @@ @]) :
               d \in {WalkDirs(f, <<>>, parent(p))} })

\* std::fs::create_dir_all: mkdir; if that fails and the path is no directory,
\* the parent first and then mkdir again
RECURSIVE create_dir_all(_, _)
create_dir_all(f, p) ==
    The({ IF first.ok THEN first
          ELSE IF is_dir(f, p) THEN Done(f)
          ELSE IF p = <<>> THEN Fail(f)
          ELSE The({ IF ~up.ok THEN up
                     ELSE The({ IF again.ok THEN again
                                ELSE IF is_dir(up.fs, p) THEN Done(up.fs)
                                ELSE Fail(up.fs) :
                                again \in {mkdir(up.fs, p)} }) :
                     up \in {create_dir_all(f, parent(p))} }) :
          first \in {mkdir(f, p)} })

\* File::create followed by io::copy: open(O_WRONLY|O_CREAT|O_TRUNC) follows a
\* symbolic link in the last component, also a dangling one; the file gets the
\* time of the filesystem's clock as its modification time
file_create(f, p, data) ==
    The({ IF ~r.ok \/ r.path \in DOMAIN f.dirs THEN Fail(f)
          ELSE IF r.path \in DOMAIN f.files
               THEN IF MayWrite(f.files[r.path].mode)
                    THEN Done([f EXCEPT !.files[r.path].data = data,
                                        !.files[r.path].mtime = f.clock])
                    ELSE Fail(f)
          ELSE IF parent(r.path) \in DOMAIN f.dirs /\ MayWrite(f.dirs[parent(r.path)])
               THEN Done([f EXCEPT !.files = (r.path :> [mode |-> MODE_FILE, data |-> data,
                                                         mtime |-> f.clock]) @@ @])
          ELSE Fail(f) :
          r \in {Resolve(f, p, TRUE)} })

(***************************************************************************)
(* Archive: extraction (archive.rs).  An archive is the sequence of its    *)
(* entry names; the bytes of an entry are identified with its name.        *)
(***************************************************************************)
Ok(f) == [ok |-> TRUE, err |-> "none", fs |-> f]
Err(f, kind) == [ok |-> FALSE, err |-> kind, fs |-> f]

has_entry(a, name) ==
    \E i \in 1..Len(a) : a[i] = name

\* dest_path.canonicalize().or_else(|_| create_dir_all(parent); parent.canonicalize().join(file_name))
canonical_dest_path(f, dest_path) ==
    The({ IF direct.ok THEN [ok |-> TRUE, fs |-> f, path |-> direct.path]
          ELSE The({ IF ~made.ok THEN [ok |-> FALSE, fs |-> made.fs, path |-> <<>>]
                     ELSE The({ IF ~up.ok THEN [ok |-> FALSE, fs |-> made.fs, path |-> <<>>]
                                ELSE [ok |-> TRUE, fs |-> made.fs,
                                      path |-> Append(up.path, dest_path[Len(dest_path)])] :
                                up \in {canonicalize(made.fs, parent(dest_path))} }) :
                     made \in {create_dir_all(f, parent(dest_path))} }) :
          direct \in {canonicalize(f, dest_path)} })

\* dest_dir.canonicalize().or_else(|_| create_dir_all(dest_dir); dest_dir.canonicalize())
canonical_dest_dir(f, dest_dir) ==
    The({ IF direct.ok THEN [ok |-> TRUE, fs |-> f, path |-> direct.path]
          ELSE The({ IF ~made.ok THEN [ok |-> FALSE, fs |-> made.fs, path |-> <<>>]
                     ELSE The({ IF ~after.ok THEN [ok |-> FALSE, fs |-> made.fs, path |-> <<>>]
                                ELSE [ok |-> TRUE, fs |-> made.fs, path |-> after.path] :
                                after \in {canonicalize(made.fs, dest_dir)} }) :
                     made \in {create_dir_all(f, dest_dir)} }) :
          direct \in {canonicalize(f, dest_dir)} })

\* the tail of extract_file: the containment check, then File::create and io::copy
extract_file_checked(cp, cd, archive_path) ==
    IF ~path_starts_with(cp.path, cd.path) THEN Err(cd.fs, "InvalidArchive")
    ELSE The({ IF ~out.ok THEN Err(out.fs, "IoError") ELSE Ok(out.fs) :
               out \in {file_create(cd.fs, cp.path, archive_path)} })

extract_file(f, a, archive_path, dest_dir) ==
    IF contains(archive_path, DotDot) THEN Err(f, "InvalidArchive")
    ELSE IF ~has_entry(a, archive_path) THEN Err(f, "InvalidArchive")
    ELSE IF ~has_file_name(archive_path) THEN Err(f, "InvalidArchive")
    ELSE The({ IF ~cp.ok THEN Err(cp.fs, "IoError")
               ELSE The({ IF ~cd.ok THEN Err(cd.fs, "IoError")
                          ELSE extract_file_checked(cp, cd, archive_path) :
                          cd \in {canonical_dest_dir(cp.fs, dest_dir)} }) :
               cp \in {canonical_dest_path(f, Append(dest_dir, file_name(archive_path)))} })

\* one entry of extract_dir's loop and of unpack_code_to's loop:
\* dest_dir.join(relative), create_dir_all(parent), File::create, io::copy
extract_entry(f, name, relative_path, dest_dir) ==
    The({ The({ IF ~made.ok THEN Err(made.fs, "IoError")
                ELSE The({ IF ~out.ok THEN Err(out.fs, "IoError") ELSE Ok(out.fs) :
                           out \in {file_create(made.fs, dest_path, name)} }) :
                made \in {create_dir_all(f, parent(dest_path))} }) :
          dest_path \in {join(dest_dir, relative_path)} })

RECURSIVE extract_each(_, _, _, _)
extract_each(f, names, skip, dest_dir) ==
    IF names = <<>> THEN Ok(f)
    ELSE The({ IF ~one.ok THEN one
               ELSE extract_each(one.fs, Tail(names), skip, dest_dir) :
               one \in {extract_entry(f, Head(names), SliceFrom(Head(names), skip), dest_dir)} })

normalized_prefix(dir_prefix) ==
    IF ends_with(dir_prefix, Slash) THEN dir_prefix ELSE dir_prefix \o Slash

extract_dir(f, a, dir_prefix, dest_dir) ==
    The({ extract_each(f,
                       SelectSeq(a, LAMBDA n : starts_with(n, prefix) /\ ~ends_with(n, Slash)),
                       Len(prefix), dest_dir) :
          prefix \in {normalized_prefix(dir_prefix)} })

unpack_data_to(f, a, dest_dir) ==
    extract_dir(f, a, DATA_PREFIX, dest_dir)

unpack_code_to(f, a, target_dir) ==
    extract_each(f, SelectSeq(a, LAMBDA n : starts_with(n, CODE_PREFIX)), 5, target_dir)

\* the body of extract_all's loop for one entry
extract_all_entry(f, file_path, dest_dir_canonical) ==
    IF contains(trim_start_matches(file_path, "/"), DotDot) THEN Err(f, "InvalidArchive")
    ELSE The({ The({ IF ~made.ok THEN Err(made.fs, "IoError")
                     ELSE IF ~path_starts_with(dest_path, dest_dir_canonical)
                          THEN Err(made.fs, "InvalidArchive")
                     ELSE The({ IF ~out.ok THEN Err(out.fs, "IoError") ELSE Ok(out.fs) :
                                out \in {file_create(made.fs, dest_path, file_path)} }) :
                     made \in {create_dir_all(f, parent(dest_path))} }) :
               dest_path \in {join(dest_dir_canonical, trim_start_matches(file_path, "/"))} })

RECURSIVE extract_all_each(_, _, _)
extract_all_each(f, names, dest_dir_canonical) ==
    IF names = <<>> THEN Ok(f)
    ELSE IF ends_with(Head(names), Slash)
         THEN extract_all_each(f, Tail(names), dest_dir_canonical)
    ELSE The({ IF ~one.ok THEN one
               ELSE extract_all_each(one.fs, Tail(names), dest_dir_canonical) :
               one \in {extract_all_entry(f, Head(names), dest_dir_canonical)} })

extract_all(f, a, dest_dir) ==
    The({ IF ~made.ok THEN Err(made.fs, "IoError")
          ELSE The({ IF ~canon.ok THEN Err(made.fs, "IoError")
                     ELSE extract_all_each(made.fs, a, canon.path) :
                     canon \in {canonicalize(made.fs, dest_dir)} }) :
          made \in {create_dir_all(f, dest_dir)} })

(***************************************************************************)
(* Extraction under attacker-chosen entry names.  The destination /d       *)
(* exists, /d/n does not; /o is a directory outside both, holding a file   *)
(* of its own.  The destination may hold a symbolic link left there        *)
(* earlier: to the outside directory, to the outside file, or dangling.    *)
(***************************************************************************)
C_d == <<"d">>
C_n == <<"n">>
C_o == <<"o">>
C_p == <<"p">>
C_q == <<"q">>
C_l == <<"l">>
C_f == <<"f">>
Orig == <<"orig">>

EntryNames ==
    { DATA_PREFIX \o <<"f">>,                          \* data/f
      DATA_PREFIX \o <<"s", "/", "g">>,                \* data/s/g
      DATA_PREFIX \o <<"s", "/">>,                     \* data/s/
      DATA_PREFIX \o <<".", ".", "/", "e">>,           \* data/../e
      DATA_PREFIX \o <<"/", "o", "/", "x">>,           \* data//o/x
      CODE_PREFIX \o <<"m">>,                          \* code/m
      CODE_PREFIX \o <<".", ".", "/", "e">>,           \* code/../e
      <<"/", "o", "/", "p">>,                          \* /o/p
      <<".", ".", "/", "e">>,                          \* ../e
      <<"l", "/", "x">>,                               \* l/x
      <<"f">> }                                        \* f

Archives ==
    UNION { [1..k -> EntryNames] : k \in 1..MaxEntries }

BaseDirs ==
    (<<>> :> MODE_RW) @@ (<<C_d>> :> MODE_RW) @@ (<<C_o>> :> MODE_RW)

BaseFiles ==
    (<<C_o, C_p>> :> [mode |-> MODE_FILE, data |-> Orig, mtime |-> 0])

NoLinks == [x \in {} |-> <<>>]

LinkSets ==
    { NoLinks,
      (<<C_d, C_l>> :> <<C_o>>),
      (<<C_d, C_f>> :> <<C_o, C_p>>),
      (<<C_d, C_f>> :> <<C_o, C_q>>) }

DestDirs == { <<C_d>>, <<C_d, C_n>> }

NoWorkspace == [directory |-> <<>>]
NoThreads == [t \in {} |-> <<>>]

InitExtract ==
    /\ privileged = FALSE
    /\ \E l \in LinkSets : fs = [dirs |-> BaseDirs, files |-> BaseFiles, links |-> l, clock |-> 0]
    /\ arch \in Archives
    /\ dest \in DestDirs
    /\ ws = NoWorkspace
    /\ thr = NoThreads
    /\ ret = [op |-> "none", ok |-> TRUE, err |-> "none"]
    /\ steps = 0

Returned(name, r) ==
    /\ fs' = r.fs
    /\ ret' = [op |-> name, ok |-> r.ok, err |-> r.err]
    /\ steps' = steps + 1
    /\ UNCHANGED <<privileged, arch, dest, ws, thr>>

ExtractFile ==
    /\ steps < MaxExtractOps
    /\ \E archive_path \in EntryNames :
          \E r \in {extract_file(fs, arch, archive_path, dest)} : Returned("extract_file", r)

ExtractDir ==
    /\ steps < MaxExtractOps
    /\ \E dir_prefix \in {S_data, DATA_PREFIX, S_code} :
          \E r \in {extract_dir(fs, arch, dir_prefix, dest)} : Returned("extract_dir", r)

UnpackDataTo ==
    /\ steps < MaxExtractOps
    /\ \E r \in {unpack_data_to(fs, arch, dest)} : Returned("unpack_data_to", r)

UnpackCodeTo ==
    /\ steps < MaxExtractOps
    /\ \E r \in {unpack_code_to(fs, arch, dest)} : Returned("unpack_code_to", r)

ExtractAll ==
    /\ steps < MaxExtractOps
    /\ \E r \in {extract_all(fs, arch, dest)} : Returned("extract_all", r)

NextExtract ==
    \/ ExtractFile
    \/ ExtractDir
    \/ UnpackDataTo
    \/ UnpackCodeTo
    \/ ExtractAll

SpecExtract == InitExtract /\ [][NextExtract]_vars

\* No file outside the destination directory d was created or overwritten
\* between the filesystems f and g.
OutsideUntouched(f, g, d) ==
    \A p \in DOMAIN g.files :
        ~path_starts_with(p, d) => (p \in DOMAIN f.files /\ g.files[p] = f.files[p])

(***************************************************************************)
(* More of the filesystem: chmod and recursive removal.                    *)
(***************************************************************************)
\* fs::metadata(p)?.permissions(); set_mode(mode); fs::set_permissions(p, perms)
set_permissions(f, p, mode) ==
    The({ IF ~r.ok THEN Fail(f)
          ELSE IF r.path \in DOMAIN f.dirs THEN Done([f EXCEPT !.dirs[r.path] = mode])
          ELSE IF r.path \in DOMAIN f.files THEN Done([f EXCEPT !.files[r.path].mode = mode])
          ELSE Fail(f) :
          r \in {Resolve(f, p, TRUE)} })

StrictlyUnder(x, d) ==
    Len(x) > Len(d) /\ SubSeq(x, 1, Len(d)) = d

Without(fn, gone) ==
    [x \in DOMAIN fn \ gone |-> fn[x]]

\* what lies below the directory d, d itself excluded
Below(f, d) ==
    { x \in DOMAIN f.dirs \cup DOMAIN f.files \cup DOMAIN f.links : StrictlyUnder(x, d) }

\* fs::remove_dir_all: unlink everything below the directory, then rmdir it.
\* Removing an entry needs write permission on the directory that holds it.
\* Nothing below is removed when some entry below cannot be.
remove_dir_all(f, p) ==
    The({ IF ~r.ok \/ r.path = <<>> THEN Fail(f)
          ELSE IF r.path \in DOMAIN f.links \/ r.path \in DOMAIN f.files
               THEN IF MayWrite(f.dirs[parent(r.path)])
                    THEN Done([f EXCEPT !.files = Without(@, {r.path}),
                                        !.links = Without(@, {r.path})])
                    ELSE Fail(f)
          ELSE IF r.path \notin DOMAIN f.dirs THEN Fail(f)
          ELSE IF \E x \in Below(f, r.path) : ~MayWrite(f.dirs[parent(x)]) THEN Fail(f)
          ELSE The({ IF MayWrite(f.dirs[parent(r.path)])
                     THEN Done([emptied EXCEPT !.dirs = Without(@, {r.path})])
                     ELSE Fail(emptied) :
                     emptied \in {[dirs |-> Without(f.dirs, Below(f, r.path)),
                                   files |-> Without(f.files, Below(f, r.path)),
                                   links |-> Without(f.links, Below(f, r.path)),
                                   clock |-> f.clock]} }) :
          r \in {Resolve(f, p, FALSE)} })

(***************************************************************************)
(* Workspace (workspace.rs).                                               *)
(***************************************************************************)
L_INPUT == <<"i", "n", "p", "u", "t">>
L_OUTPUT == <<"o", "u", "t", "p", "u", "t">>
L_TEMP == <<"t", "e", "m", "p">>
L_META_DIR == <<".", "b", "e", "a", "d", "-", "m", "e", "t", "a">>
L_BEAD_META == L_META_DIR \o <<"/", "b", "e", "a", "d">>
L_INPUT_MAP == L_META_DIR \o <<"/", "i", "n", "p", "u", "t", ".", "m", "a", "p">>
META_VERSION == <<"aaa947a6-1f7a-11e6-ba3a-0021cc73492e">>
None == <<"None">>

NoInputs == [x \in {} |-> <<>>]

\* BeadMeta::new_workspace
new_workspace(kind) ==
    [meta_version |-> META_VERSION, kind |-> kind, inputs |-> NoInputs,
     freeze_time |-> None, freeze_name |-> None]

WOk(f, w) == [ok |-> TRUE, err |-> "none", fs |-> f, ws |-> w]
WErr(f, w, kind) == [ok |-> FALSE, err |-> kind, fs |-> f, ws |-> w]

\* persistence::save_json(&self.meta, BEAD_META): the file holds the record
save_meta(f, w) ==
    file_create(f, join(w.directory, L_BEAD_META), w.meta)

RECURSIVE create_dirs(_, _, _)
create_dirs(f, base, names) ==
    IF names = <<>> THEN Done(f)
    ELSE The({ IF ~one.ok THEN one ELSE create_dirs(one.fs, base, Tail(names)) :
               one \in {mkdir(f, join(base, Head(names)))} })

create_over_existing(f, directory, kind) ==
    The({ IF ~top.ok THEN WErr(top.fs, NoWorkspace, "IoError")
          ELSE The({ IF ~sub.ok THEN WErr(sub.fs, NoWorkspace, "IoError")
                ELSE The({ IF ~saved.ok THEN WErr(saved.fs, NoWorkspace, "IoError")
                      ELSE The({ IF ~locked.ok THEN WErr(locked.fs, NoWorkspace, "IoError")
                                 ELSE WOk(locked.fs, [directory |-> directory,
                                                      meta |-> new_workspace(kind),
                                                      input_map |-> NoInputs]) :
                                 locked \in {set_permissions(saved.fs, join(directory, L_INPUT), MODE_RO)} }) :
                      saved \in {save_meta(sub.fs, [directory |-> directory,
                                                    meta |-> new_workspace(kind)])} }) :
                sub \in {create_dirs(top.fs, directory, <<L_INPUT, L_OUTPUT, L_TEMP, L_META_DIR>>)} }) :
          top \in {create_dir_all(f, directory)} })

\* Workspace::create
create(f, directory, kind) ==
    IF path_exists(f, directory) THEN WErr(f, NoWorkspace, "AlreadyExists")
    ELSE The({ IF ~top.ok THEN WErr(top.fs, NoWorkspace, "IoError")
          ELSE The({ IF ~sub.ok THEN WErr(sub.fs, NoWorkspace, "IoError")
                ELSE The({ IF ~saved.ok THEN WErr(saved.fs, NoWorkspace, "IoError")
                      ELSE The({ IF ~locked.ok THEN WErr(locked.fs, NoWorkspace, "IoError")
                                 ELSE WOk(locked.fs, [directory |-> directory,
                                                      meta |-> new_workspace(kind),
                                                      input_map |-> NoInputs]) :
                                 locked \in {set_permissions(saved.fs, join(directory, L_INPUT), MODE_RO)} }) :
                      saved \in {save_meta(sub.fs, [directory |-> directory,
                                                    meta |-> new_workspace(kind)])} }) :
                sub \in {create_dirs(top.fs, directory, <<L_INPUT, L_OUTPUT, L_TEMP, L_META_DIR>>)} }) :
          top \in {create_dir_all(f, directory)} })

is_valid_without_temp(f, directory) ==
    /\ is_dir(f, join(directory, L_INPUT))
    /\ is_dir(f, join(directory, L_OUTPUT))
    /\ path_exists(f, join(directory, L_BEAD_META))
    /\ ~is_dir(f, join(directory, L_BEAD_META))

\* Workspace::is_valid
workspace_is_valid(f, directory) ==
    /\ is_dir(f, join(directory, L_INPUT))
    /\ is_dir(f, join(directory, L_OUTPUT))
    /\ is_dir(f, join(directory, L_TEMP))
    /\ path_exists(f, join(directory, L_BEAD_META))
    /\ ~is_dir(f, join(directory, L_BEAD_META))

\* persistence::load_json::<T>: the file is read and parsed as a T; a file
\* holds a T when it holds the field that tells the records of T
load_json(f, path, field) ==
    IF ~path_exists(f, path) \/ is_dir(f, path)
    THEN [ok |-> FALSE, err |-> "IoError", value |-> None]
    ELSE The({ IF field \in DOMAIN data THEN [ok |-> TRUE, err |-> "none", value |-> data]
               ELSE [ok |-> FALSE, err |-> "JsonError", value |-> None] :
               data \in {f.files[Resolve(f, path, TRUE).path].data} })

\* Workspace::open
workspace_open(f, directory) ==
    IF ~workspace_is_valid(f, directory) THEN WErr(f, NoWorkspace, "InvalidWorkspace")
    ELSE The({ IF ~loaded.ok THEN WErr(f, NoWorkspace, loaded.err)
               ELSE IF ~path_exists(f, join(directory, L_INPUT_MAP))
                    THEN WOk(f, [directory |-> directory, meta |-> loaded.value,
                                 input_map |-> NoInputs])
               ELSE The({ IF ~map.ok THEN WErr(f, NoWorkspace, map.err)
                          ELSE WOk(f, [directory |-> directory, meta |-> loaded.value,
                                       input_map |-> map.value.input_map]) :
                          map \in {load_json(f, join(directory, L_INPUT_MAP), "input_map")} }) :
               loaded \in {load_json(f, join(directory, L_BEAD_META), "kind")} })

has_input(w, name) ==
    name \in DOMAIN w.meta.inputs

input_path(w, name) ==
    join(join(w.directory, L_INPUT), name)

is_loaded(f, w, name) ==
    is_dir(f, input_path(w, name))

is_valid_input_name(name) ==
    /\ name # <<>>
    /\ name # Dot
    /\ name # DotDot
    /\ ~contains(name, <<"/">>)
    /\ ~contains(name, <<"\\">>)
    /\ ~starts_with(name, <<".", ".", "/">>)

\* BeadMeta::add_input (HashMap::insert)
meta_add_input(meta, name, spec) ==
    [meta EXCEPT !.inputs = [n \in DOMAIN @ \cup {name} |-> IF n = name THEN spec ELSE @[n]]]

\* Workspace::add_input
add_input(f, w, name, spec) ==
    IF ~is_valid_input_name(name) THEN WErr(f, w, "InvalidInput")
    ELSE IF has_input(w, name) THEN WErr(f, w, "AlreadyExists")
    ELSE The({ The({ IF ~saved.ok THEN WErr(saved.fs, w2, "IoError") ELSE WOk(saved.fs, w2) :
                     saved \in {save_meta(f, w2)} }) :
               w2 \in {[w EXCEPT !.meta = meta_add_input(@, name, spec)]} })

\* Workspace::unload_input
unload_input(f, w, name) ==
    IF ~path_exists(f, input_path(w, name)) THEN WOk(f, w)
    ELSE The({ IF ~open.ok THEN WErr(open.fs, w, "IoError")
               ELSE The({ IF ~gone.ok THEN WErr(gone.fs, w, "IoError") ELSE WOk(gone.fs, w) :
                          gone \in {remove_dir_all(open.fs, input_path(w, name))} }) :
               open \in {set_permissions(f, input_path(w, name), MODE_RW)} })

\* the end of load_input: the slot read-only, then input/ read-only again
load_input_lock(f, w, name) ==
    The({ IF ~slot.ok THEN WErr(slot.fs, w, "IoError")
          ELSE The({ IF ~dir.ok THEN WErr(dir.fs, w, "IoError") ELSE WOk(dir.fs, w) :
                     dir \in {set_permissions(slot.fs, join(w.directory, L_INPUT), MODE_RO)} }) :
          slot \in {set_permissions(f, input_path(w, name), MODE_RO)} })

\* load_input extracting also when the slot is there
load_input_reloading(f, w, name, archive) ==
    IF ~has_input(w, name) THEN WErr(f, w, "InvalidInput")
    ELSE The({ IF ~open.ok THEN WErr(open.fs, w, "IoError")
          ELSE The({ IF ~made.ok THEN WErr(made.fs, w, "IoError")
                ELSE The({ IF ~data.ok THEN WErr(data.fs, w, data.err)
                           ELSE load_input_lock(data.fs, w, name) :
                           data \in {extract_dir(made.fs, archive, DATA_PREFIX, input_path(w, name))} }) :
                made \in {create_dir_all(open.fs, input_path(w, name))} }) :
          open \in {set_permissions(f, join(w.directory, L_INPUT), MODE_RW)} })

\* Workspace::load_input
load_input(f, w, name, archive) ==
    IF ~has_input(w, name) THEN WErr(f, w, "InvalidInput")
    ELSE IF is_loaded(f, w, name) THEN WOk(f, w)
    ELSE The({ IF ~open.ok THEN WErr(open.fs, w, "IoError")
          ELSE The({ IF ~made.ok THEN WErr(made.fs, w, "IoError")
                ELSE The({ IF ~data.ok THEN WErr(data.fs, w, data.err)
                           ELSE load_input_lock(data.fs, w, name) :
                           data \in {extract_dir(made.fs, archive, DATA_PREFIX, input_path(w, name))} }) :
                made \in {create_dir_all(open.fs, input_path(w, name))} }) :
          open \in {set_permissions(f, join(w.directory, L_INPUT), MODE_RW)} })

\* fs::remove_file
remove_file(f, p) ==
    The({ IF ~r.ok \/ r.path = <<>> THEN Fail(f)
          ELSE IF r.path \notin DOMAIN f.links \cup DOMAIN f.files THEN Fail(f)
          ELSE IF ~MayWrite(f.dirs[parent(r.path)]) THEN Fail(f)
          ELSE Done([f EXCEPT !.files = Without(@, {r.path}), !.links = Without(@, {r.path})]) :
          r \in {Resolve(f, p, FALSE)} })

\* save_input_map that leaves the file of a map become empty
save_input_map_keeping(f, w) ==
    IF w.input_map # NoInputs
    THEN file_create(f, join(w.directory, L_INPUT_MAP), [input_map |-> w.input_map])
    ELSE Done(f)

\* Workspace::save_input_map: the file holds the map, and is removed when the
\* map is empty
save_input_map(f, w) ==
    IF w.input_map # NoInputs
    THEN file_create(f, join(w.directory, L_INPUT_MAP), [input_map |-> w.input_map])
    ELSE IF path_exists(f, join(w.directory, L_INPUT_MAP))
         THEN remove_file(f, join(w.directory, L_INPUT_MAP))
    ELSE Done(f)

\* Workspace::set_input_bead_name
set_input_bead_name(f, w, input_name, bead_name) ==
    IF ~has_input(w, input_name) THEN WErr(f, w, "InvalidInput")
    ELSE The({ The({ IF ~saved.ok THEN WErr(saved.fs, w2, "IoError") ELSE WOk(saved.fs, w2) :
                     saved \in {save_input_map(f, w2)} }) :
               w2 \in {[w EXCEPT !.input_map =
                          [n \in DOMAIN @ \cup {input_name} |->
                             IF n = input_name THEN bead_name ELSE @[n]]]} })

\* BeadMeta::remove_input and HashMap::remove of the input map
without_input(w, name) ==
    [w EXCEPT !.meta.inputs = [n \in DOMAIN @ \ {name} |-> @[n]],
              !.input_map = [n \in DOMAIN @ \ {name} |-> @[n]]]

\* the end of delete_input: the spec and the mapping removed, both files saved
delete_input_record(f, w, name) ==
    The({ The({ IF ~saved.ok THEN WErr(saved.fs, w2, "IoError")
                ELSE The({ IF ~mapped.ok THEN WErr(mapped.fs, w2, "IoError")
                           ELSE WOk(mapped.fs, w2) :
                           mapped \in {save_input_map(saved.fs, w2)} }) :
                saved \in {save_meta(f, w2)} }) :
          w2 \in {without_input(w, name)} })

\* Workspace::delete_input
delete_input(f, w, name) ==
    IF ~has_input(w, name) THEN WErr(f, w, "InvalidInput")
    ELSE IF ~is_loaded(f, w, name) THEN delete_input_record(f, w, name)
    ELSE The({ IF ~unloaded.ok THEN unloaded
               ELSE delete_input_record(unloaded.fs, w, name) :
               unloaded \in {unload_input(f, w, name)} })

\* Workspace::update_input: the loaded version unloaded, the spec overwritten
\* and saved, the new version loaded
update_input(f, w, name, new_spec, archive) ==
    IF ~has_input(w, name) THEN WErr(f, w, "InvalidInput")
    ELSE The({ IF ~unloaded.ok THEN unloaded
               ELSE The({ The({ IF ~saved.ok THEN WErr(saved.fs, w2, "IoError")
                                ELSE load_input(saved.fs, w2, name, archive) :
                                saved \in {save_meta(unloaded.fs, w2)} }) :
                          w2 \in {[w EXCEPT !.meta = meta_add_input(@, name, new_spec)]} }) :
               unloaded \in {IF is_loaded(f, w, name) THEN unload_input(f, w, name)
                             ELSE WOk(f, w)} })

\* Err(e) carries no input name
Outcome(r, name) ==
    [ok |-> r.ok, err |-> r.err, name |-> IF r.ok THEN name ELSE <<>>]

\* the loop of load_all_inputs over the declared names, in the order the map
\* yields them: archives.first() serves every input
RECURSIVE load_each(_, _, _, _, _)
load_each(f, w, names, archives, results) ==
    IF names = <<>> THEN [fs |-> f, ws |-> w, results |-> results]
    ELSE IF archives = <<>>
    THEN load_each(f, w, Tail(names), archives,
                   Append(results, Outcome(WErr(f, w, "InvalidInput"), Head(names))))
    ELSE The({ load_each(r.fs, r.ws, Tail(names), archives,
                         Append(results, Outcome(r, Head(names)))) :
               r \in {load_input(f, w, Head(names), Head(archives))} })

\* Workspace::load_all_inputs, names being meta.inputs in iteration order
load_all_inputs(f, w, names, archives) ==
    load_each(f, w, names, archives, <<>>)

\* Workspace::delete: input/ made writable, then the directory removed
workspace_delete(f, w) ==
    The({ IF ~open.ok THEN WErr(open.fs, w, "IoError")
          ELSE The({ IF ~gone.ok THEN WErr(gone.fs, w, "IoError") ELSE WOk(gone.fs, w) :
                     gone \in {remove_dir_all(open.fs, w.directory)} }) :
          open \in {IF path_exists(f, join(w.directory, L_INPUT))
                    THEN set_permissions(f, join(w.directory, L_INPUT), MODE_RW)
                    ELSE Done(f)} })

(***************************************************************************)
(* SpecWs: a workspace /w just created, for the owner (privileged or not). *)
(* Inputs are declared, loaded from an archive and unloaded.               *)
(***************************************************************************)
C_w == <<"w">>
C_a == <<"a">>
C_b == <<"b">>
K_kind == <<"k">>

WsDir == <<C_w>>

RootFs == [dirs |-> (<<>> :> MODE_RW), files |-> [x \in {} |-> <<>>], links |-> NoLinks,
           clock |-> 0]

InputNames == { C_a, C_b, DotDot }

InputSpecs ==
    { [kind |-> K_kind, content_id |-> <<"1">>, freeze_time |-> <<"t">>] }

WsArchives ==
    { << DATA_PREFIX \o <<"f">> >>,                                          \* a file
      << DATA_PREFIX \o <<"s", "/", "g">>, DATA_PREFIX \o <<"f">> >>,        \* a subdirectory
      << DATA_PREFIX \o <<".", ".", "/", "e">> >>,                           \* a `..` segment
      << DATA_PREFIX \o <<"f">>, DATA_PREFIX \o <<"f", "/", "g">> >>,        \* extraction fails
      << CODE_PREFIX \o <<"m">> >> }                                         \* no data at all

InitWs ==
    /\ privileged \in BOOLEAN
    /\ \E r \in {create(RootFs, WsDir, K_kind)} :
          /\ r.ok
          /\ fs = r.fs
          /\ ws = r.ws
    /\ arch = <<>>
    /\ dest = <<>>
    /\ thr = NoThreads
    /\ ret = [op |-> "create", ok |-> TRUE, err |-> "none", name |-> <<>>]
    /\ steps = 0

WsReturned(op, name, a, r) ==
    /\ fs' = r.fs
    /\ ws' = r.ws
    /\ arch' = a
    /\ ret' = [op |-> op, ok |-> r.ok, err |-> r.err, name |-> name]
    /\ steps' = steps + 1
    /\ UNCHANGED <<privileged, dest, thr>>

AddInput ==
    /\ steps < MaxWsOps
    /\ \E name \in InputNames, spec \in InputSpecs :
          \E r \in {add_input(fs, ws, name, spec)} : WsReturned("add_input", name, arch, r)

LoadInput ==
    /\ steps < MaxWsOps
    /\ \E name \in InputNames, archive \in WsArchives :
          \E r \in {load_input(fs, ws, name, archive)} : WsReturned("load_input", name, archive, r)

UnloadInput ==
    /\ steps < MaxWsOps
    /\ \E name \in InputNames :
          \E r \in {unload_input(fs, ws, name)} : WsReturned("unload_input", name, arch, r)

NextWs ==
    \/ AddInput
    \/ LoadInput
    \/ UnloadInput

SpecWs == InitWs /\ [][NextWs]_vars

(***************************************************************************)
(* Timestamps (tech/timestamp.rs): YYYYMMDDTHHMMSSNNNNNN+ZZZZ, parsed by   *)
(* slicing; the result is the UTC instant as seconds and microseconds.     *)
(***************************************************************************)
Digits == <<"0", "1", "2", "3", "4", "5", "6", "7", "8", "9">>

IsDigit(c) ==
    \E i \in 1..10 : Digits[i] = c

DigitValue(c) ==
    (CHOOSE i \in 1..10 : Digits[i] = c) - 1

RECURSIVE DecimalValue(_)
DecimalValue(s) ==
    IF s = <<>> THEN 0
    ELSE 10 * DecimalValue(SubSeq(s, 1, Len(s) - 1)) + DigitValue(s[Len(s)])

AllDigits(s) ==
    s # <<>> /\ \A i \in 1..Len(s) : IsDigit(s[i])

\* str::parse::<u32>: digits, after an optional `+`
parse_u32(s) ==
    IF AllDigits(s) THEN [ok |-> TRUE, v |-> DecimalValue(s)]
    ELSE IF s # <<>> /\ s[1] = "+" /\ AllDigits(Tail(s))
         THEN [ok |-> TRUE, v |-> DecimalValue(Tail(s))]
    ELSE [ok |-> FALSE, v |-> 0]

\* str::parse::<i32>: digits, after an optional sign
parse_i32(s) ==
    IF s # <<>> /\ s[1] = "-" /\ AllDigits(Tail(s))
    THEN [ok |-> TRUE, v |-> 0 - DecimalValue(Tail(s))]
    ELSE parse_u32(s)

\* s[from..to] of Rust: the characters from+1 .. to
Slice(s, from, to) ==
    SubSeq(s, from + 1, to)

IsLeap(y) ==
    (y % 4 = 0 /\ y % 100 # 0) \/ y % 400 = 0

DaysInMonth(y, m) ==
    IF m = 2 THEN (IF IsLeap(y) THEN 29 ELSE 28)
    ELSE IF m \in {4, 6, 9, 11} THEN 30 ELSE 31

\* days since 1970-01-01 of a date of the proleptic Gregorian calendar
DaysFromCivil(y, m, d) ==
    The({ The({ era * 146097
                + ((yy - era * 400) * 365 + (yy - era * 400) \div 4 - (yy - era * 400) \div 100
                   + (153 * (IF m > 2 THEN m - 3 ELSE m + 9) + 2) \div 5 + d - 1)
                - 719468 :
                era \in {yy \div 400} }) :
          yy \in {IF m <= 2 THEN y - 1 ELSE y} })

TsErr == [ok |-> FALSE, secs |-> 0, micros |-> 0]

\* the timezone of parse_timestamp: the offset in seconds east of UTC
tz_offset(tz_str) ==
    The({ The({ (IF tz_str[1] = "+" THEN 1 ELSE -1)
                * ((IF hours.ok THEN hours.v ELSE 0) * 3600
                   + (IF minutes.ok THEN minutes.v ELSE 0) * 60) :
                minutes \in {IF Len(tz_str) >= 5 THEN parse_i32(Slice(tz_str, 3, 5))
                             ELSE [ok |-> TRUE, v |-> 0]} }) :
          hours \in {parse_i32(Slice(tz_str, 1, 3))} })

parse_timestamp_fields(year, month, day, hour, minute, second, microsecond, offset) ==
    IF \/ ~year.ok \/ ~month.ok \/ ~day.ok \/ ~hour.ok \/ ~minute.ok \/ ~second.ok
       \/ ~microsecond.ok THEN TsErr
    ELSE IF offset <= -86400 \/ offset >= 86400 THEN TsErr
    ELSE IF \/ month.v < 1 \/ month.v > 12
            \/ day.v < 1 \/ day.v > DaysInMonth(year.v, month.v)
            \/ hour.v > 23 \/ minute.v > 59 \/ second.v > 59 THEN TsErr
    ELSE [ok |-> TRUE,
          secs |-> DaysFromCivil(year.v, month.v, day.v) * 86400
                   + hour.v * 3600 + minute.v * 60 + second.v - offset,
          micros |-> microsecond.v]

parse_timestamp(timestamp) ==
    IF Len(timestamp) < 24 THEN TsErr
    ELSE parse_timestamp_fields(parse_i32(Slice(timestamp, 0, 4)),
                                parse_u32(Slice(timestamp, 4, 6)),
                                parse_u32(Slice(timestamp, 6, 8)),
                                parse_u32(Slice(timestamp, 9, 11)),
                                parse_u32(Slice(timestamp, 11, 13)),
                                parse_u32(Slice(timestamp, 13, 15)),
                                parse_u32(Slice(timestamp, 15, 21)),
                                tz_offset(SliceFrom(timestamp, 21)))

(***************************************************************************)
(* Archive handles (archive.rs) and the Box (box_store.rs).  A file of a   *)
(* box is an empty file (what Box::store leaves) or a ZIP holding the      *)
(* metadata Archive::create wrote.                                         *)
(***************************************************************************)
Underscore == <<"_">>
DOT_ZIP == <<".", "z", "i", "p">>
DOT_XMETA == <<".", "x", "m", "e", "t", "a">>
Unnamed == <<"u", "n", "n", "a", "m", "e", "d">>

EmptyFile == [zip |-> FALSE]

\* BeadName::is_valid
BeadName_is_valid(name) ==
    /\ name # <<>>
    /\ name # Dot
    /\ name # DotDot
    /\ ~contains(name, Slash)
    /\ ~contains(name, <<"_", "_">>)

\* InputName::new
InputName_new(name) ==
    IF BeadName_is_valid(name) THEN [ok |-> TRUE, err |-> "none", name |-> name]
    ELSE [ok |-> FALSE, err |-> "InvalidInput", name |-> <<>>]

\* BeadName::new
BeadName_new(name) ==
    IF BeadName_is_valid(name) THEN [ok |-> TRUE, err |-> "none", name |-> name]
    ELSE [ok |-> FALSE, err |-> "InvalidBeadName", name |-> <<>>]

\* s.split(c).next(): what precedes the first c, all of s when there is none
RECURSIVE split_next(_, _)
split_next(s, c) ==
    IF s = <<>> \/ Head(s) = c THEN <<>>
    ELSE <<Head(s)>> \o split_next(Tail(s), c)

\* Path::file_name of a path given by its components
path_file_name(p) ==
    IF p = <<>> \/ p[Len(p)] = DotDot THEN None ELSE p[Len(p)]

\* Path::with_extension
RECURSIVE file_stem(_)
file_stem(n) ==
    IF ~contains(Tail(n), Dot) THEN n
    ELSE IF n[Len(n)] = "." THEN SubSeq(n, 1, Len(n) - 1)
    ELSE file_stem(SubSeq(n, 1, Len(n) - 1))

with_extension(p, ext) ==
    IF path_file_name(p) = None THEN p
    ELSE Append(parent(p), file_stem(p[Len(p)]) \o ext)

\* Archive::parse_name_from_path
parse_name_from_path(path) ==
    IF path_file_name(path) = None THEN [ok |-> FALSE, err |-> "InvalidArchive", name |-> <<>>]
    ELSE The({ IF BeadName_is_valid(name) THEN [ok |-> TRUE, err |-> "none", name |-> name]
               ELSE [ok |-> FALSE, err |-> "InvalidBeadName", name |-> name] :
               name \in {split_next(IF ends_with(path_file_name(path), DOT_ZIP)
                                    THEN SubSeq(path_file_name(path), 1, Len(path_file_name(path)) - 4)
                                    ELSE path_file_name(path), "_")} })

\* the content of the file a path names
FileAt(f, p) ==
    f.files[Resolve(f, p, TRUE).path].data

is_file(f, p) ==
    \E r \in {Resolve(f, p, TRUE)} : r.ok /\ r.path \in DOMAIN f.files

NoCache == [x \in {} |-> <<>>]

\* the cache Archive::open loads from the .xmeta file, empty when unreadable
load_cache(f, cache_path) ==
    IF is_file(f, cache_path) /\ "cache" \in DOMAIN FileAt(f, cache_path)
    THEN FileAt(f, cache_path).cache
    ELSE NoCache

NoArchive == [path |-> <<>>]

\* OnceCell<BeadMeta>
EmptyCell == [init |-> FALSE]
CellOf(m) == [init |-> TRUE, value |-> m]
NoMeta == [kind |-> None]

\* Archive::open without the test that the file exists
open_unchecked(f, path, box_name) ==
    The({ IF ~parsed.ok THEN [ok |-> FALSE, err |-> parsed.err, archive |-> NoArchive]
               ELSE [ok |-> TRUE, err |-> "none",
                     archive |-> [path |-> path, box_name |-> box_name, name |-> parsed.name,
                                  cache |-> load_cache(f, with_extension(path, DOT_XMETA)),
                                  meta |-> EmptyCell]] :
               parsed \in {parse_name_from_path(path)} })

\* Archive::open
open(f, path, box_name) ==
    IF ~path_exists(f, path) THEN [ok |-> FALSE, err |-> "InvalidArchive", archive |-> NoArchive]
    ELSE The({ IF ~parsed.ok THEN [ok |-> FALSE, err |-> parsed.err, archive |-> NoArchive]
               ELSE [ok |-> TRUE, err |-> "none",
                     archive |-> [path |-> path, box_name |-> box_name, name |-> parsed.name,
                                  cache |-> load_cache(f, with_extension(path, DOT_XMETA)),
                                  meta |-> EmptyCell]] :
               parsed \in {parse_name_from_path(path)} })

\* Workspace::name
workspace_name(w) ==
    path_file_name(w.directory)

\* the metadata Archive::create writes into the ZIP
frozen_meta(w, freeze_time) ==
    [w.meta EXCEPT !.freeze_time = freeze_time,
                   !.freeze_name = IF workspace_name(w) = None THEN Unnamed ELSE workspace_name(w)]

\* Archive::create
archive_create(f, path, w, freeze_time) ==
    IF path_exists(f, path) THEN [ok |-> FALSE, err |-> "AlreadyExists", fs |-> f, archive |-> NoArchive]
    ELSE The({ IF ~made.ok THEN [ok |-> FALSE, err |-> "IoError", fs |-> made.fs, archive |-> NoArchive]
               ELSE IF ~BeadName_is_valid(frozen_meta(w, freeze_time).freeze_name)
                    THEN [ok |-> FALSE, err |-> "InvalidBeadName", fs |-> made.fs, archive |-> NoArchive]
               ELSE [ok |-> TRUE, err |-> "none", fs |-> made.fs,
                     archive |-> [path |-> path, box_name |-> <<>>,
                                  name |-> frozen_meta(w, freeze_time).freeze_name,
                                  cache |-> NoCache,
                                  meta |-> CellOf(frozen_meta(w, freeze_time))]] :
               made \in {file_create(f, path, [zip |-> TRUE,
                                               meta |-> frozen_meta(w, freeze_time),
                                               manifest |-> NoCache,
                                               input_map |-> w.input_map])} })

\* serde_json::from_value::<BeadMeta>: the fields without Option are needed
parses_as_meta(v) ==
    {"meta_version", "kind", "inputs"} \subseteq DOMAIN v

\* Archive::get_zipfile: File::open, then ZipArchive::new
get_zipfile(f, a) ==
    IF ~is_file(f, a.path) THEN [ok |-> FALSE, err |-> "IoError", zip |-> EmptyFile]
    ELSE IF ~FileAt(f, a.path).zip THEN [ok |-> FALSE, err |-> "ZipError", zip |-> EmptyFile]
    ELSE [ok |-> TRUE, err |-> "none", zip |-> FileAt(f, a.path)]

\* Archive::meta: the value the handle holds, else the cache when it parses,
\* else the entry meta/bead of the ZIP
meta(f, a) ==
    IF a.meta.init THEN [ok |-> TRUE, err |-> "none", meta |-> a.meta.value]
    ELSE IF "meta" \in DOMAIN a.cache /\ parses_as_meta(a.cache["meta"])
    THEN [ok |-> TRUE, err |-> "none", meta |-> a.cache["meta"]]
    ELSE The({ IF ~z.ok THEN [ok |-> FALSE, err |-> z.err, meta |-> NoMeta]
               ELSE IF "meta" \notin DOMAIN z.zip
                    THEN [ok |-> FALSE, err |-> "ZipError", meta |-> NoMeta]
               ELSE IF ~parses_as_meta(z.zip.meta)
                    THEN [ok |-> FALSE, err |-> "JsonError", meta |-> NoMeta]
               ELSE [ok |-> TRUE, err |-> "none", meta |-> z.zip.meta] :
               z \in {get_zipfile(f, a)} })

\* Archive::validate: the metadata can be read, and the ZIP has the entries
\* meta/bead and meta/manifest
validate(f, a) ==
    The({ IF ~m.ok THEN [ok |-> FALSE, err |-> m.err]
          ELSE The({ IF ~z.ok THEN [ok |-> FALSE, err |-> z.err]
                     ELSE IF "meta" \notin DOMAIN z.zip \/ "manifest" \notin DOMAIN z.zip
                          THEN [ok |-> FALSE, err |-> "InvalidArchive"]
                     ELSE [ok |-> TRUE, err |-> "none"] :
                     z \in {get_zipfile(f, a)} }) :
          m \in {meta(f, a)} })

\* the names of the entries of a ZIP beside those under meta/
zip_entries(z) ==
    IF "entries" \in DOMAIN z THEN z.entries ELSE <<>>

\* Archive::unpack_to: the code is unpacked into the directory of the
\* workspace, then the metadata of the workspace becomes that of the archive
unpack_to(f, a, w) ==
    The({ IF ~z.ok THEN WErr(f, w, z.err)
          ELSE The({ IF ~code.ok THEN WErr(code.fs, w, code.err)
                ELSE The({ IF ~m.ok THEN WErr(code.fs, w, m.err)
                           ELSE WOk(code.fs, [w EXCEPT !.meta = m.meta]) :
                           m \in {meta(code.fs, a)} }) :
                code \in {unpack_code_to(f, zip_entries(z.zip), w.directory)} }) :
          z \in {get_zipfile(f, a)} })

\* Archive::kind
kind(f, a) ==
    The({ IF m.ok THEN [ok |-> TRUE, kind |-> m.meta.kind] ELSE [ok |-> FALSE, kind |-> None] :
          m \in {meta(f, a)} })

\* Archive::freeze_time: the parsed freeze_time of the metadata, else now
freeze_time(f, a, now) ==
    The({ IF ~m.ok THEN now
          ELSE IF m.meta.freeze_time = None THEN now
          ELSE The({ IF t.ok THEN [secs |-> t.secs, micros |-> t.micros] ELSE now :
                     t \in {parse_timestamp(m.meta.freeze_time)} }) :
          m \in {meta(f, a)} })

\* Box::new
box_new(f, name, location) ==
    IF ~path_exists(f, location) \/ ~is_dir(f, location)
    THEN [ok |-> FALSE, err |-> "BoxNotFound", box |-> [name |-> name, location |-> <<>>]]
    ELSE [ok |-> TRUE, err |-> "none", box |-> [name |-> name, location |-> location]]

\* format!("{}_{}.zip", bead_name, freeze_time)
archive_name(bead_name, time) ==
    bead_name \o Underscore \o time \o DOT_ZIP

StoreErr(f, e) == [ok |-> FALSE, err |-> e, fs |-> f, path |-> <<>>]

\* Box::store creating the file whether it is there or not
store_truncating(f, box, w, time) ==
    IF workspace_name(w) = None THEN StoreErr(f, "InvalidWorkspace")
    ELSE The({ The({ IF ~made.ok THEN StoreErr(made.fs, "IoError")
                     ELSE [ok |-> TRUE, err |-> "none", fs |-> made.fs, path |-> archive_path] :
                     made \in {file_create(f, archive_path, EmptyFile)} }) :
               archive_path \in {join(box.location, archive_name(workspace_name(w), time))} })

\* Box::store
store(f, box, w, time) ==
    IF workspace_name(w) = None THEN StoreErr(f, "InvalidWorkspace")
    ELSE The({ IF path_exists(f, archive_path) THEN StoreErr(f, "AlreadyExists")
               ELSE The({ IF ~made.ok THEN StoreErr(made.fs, "IoError")
                          ELSE [ok |-> TRUE, err |-> "none", fs |-> made.fs, path |-> archive_path] :
                          made \in {file_create(f, archive_path, EmptyFile)} }) :
               archive_path \in {join(box.location, archive_name(workspace_name(w), time))} })

\* the characters of file names, in the order of their codes
CharOrder ==
    <<"+", "-", ".", "0", "1", "2", "3", "4", "5", "6", "7", "8", "9", "T", "_",
      "a", "b", "c", "d", "e", "f", "g", "h", "i", "j", "k", "l", "m", "n", "o",
      "p", "q", "r", "s", "t", "u", "v", "w", "x", "y", "z">>

CharCode(c) ==
    CHOOSE i \in 1..Len(CharOrder) : CharOrder[i] = c

RECURSIVE StrLess(_, _)
StrLess(a, b) ==
    IF b = <<>> THEN FALSE
    ELSE IF a = <<>> THEN TRUE
    ELSE IF Head(a) = Head(b) THEN StrLess(Tail(a), Tail(b))
    ELSE CharCode(Head(a)) < CharCode(Head(b))

RECURSIVE Sorted(_)
Sorted(names) ==
    IF names = {} THEN <<>>
    ELSE The({ <<least>> \o Sorted(names \ {least}) :
               least \in {CHOOSE m \in names : \A o \in names \ {m} : StrLess(m, o)} })

\* the names of the entries of a directory
EntriesOf(f, d) ==
    { x[Len(x)] : x \in { y \in DOMAIN f.dirs \cup DOMAIN f.files \cup DOMAIN f.links :
                          y # <<>> /\ parent(y) = d } }

\* glob(location/<prefix>*.zip): the matching entries of the directory, sorted
\* by name (prefix without wildcard characters and without `/`); reading the
\* directory fails when it may not be read, and the failure is an Err item
\* of the iterator, which the callers skip
glob(f, location, prefix) ==
    The({ IF ~d.ok \/ d.path \notin DOMAIN f.dirs THEN <<>>
          ELSE IF ~MayRead(f.dirs[d.path]) THEN <<>>
          ELSE Sorted({ n \in EntriesOf(f, d.path) :
                          /\ Len(n) >= Len(prefix) + Len(DOT_ZIP)
                          /\ starts_with(n, prefix)
                          /\ ends_with(n, DOT_ZIP) }) :
          d \in {Resolve(f, location, TRUE)} })

\* pattern.to_str(): the components of the location and the last component
\* of the pattern, separated by `/`
RECURSIVE pattern_str(_, _)
pattern_str(location, last) ==
    IF location = <<>> THEN Slash \o last
    ELSE Slash \o Head(location) \o pattern_str(Tail(location), last)

\* Pattern::new fails on a `[` that no `]` closes (patterns without `**`)
pattern_error(pattern) ==
    \E i \in 1..Len(pattern) :
       /\ pattern[i] = "["
       /\ ~\E j \in (i + 2)..Len(pattern) : pattern[j] = "]"

\* glob(location/<prefix>*.zip) returns Err: the `?` of all_beads and of
\* find_by_name returns IoError
scan_fails(box, prefix) ==
    pattern_error(pattern_str(box.location, prefix \o <<"*">> \o DOT_ZIP))

RECURSIVE open_each_until_failure(_, _, _)
open_each_until_failure(f, box, names) ==
    IF names = <<>> THEN <<>>
    ELSE The({ IF opened.ok
               THEN <<opened.archive>> \o open_each_until_failure(f, box, Tail(names))
               ELSE <<>> :
               opened \in {open(f, Append(box.location, Head(names)), box.name)} })

\* the loop of find_by_name and all_beads: the archives that open
RECURSIVE open_each(_, _, _)
open_each(f, box, names) ==
    IF names = <<>> THEN <<>>
    ELSE The({ (IF opened.ok THEN <<opened.archive>> ELSE <<>>)
               \o open_each(f, box, Tail(names)) :
               opened \in {open(f, Append(box.location, Head(names)), box.name)} })

\* Box::find_by_name
find_by_name(f, box, name) ==
    open_each(f, box, glob(f, box.location, name \o Underscore))

NotFound == [some |-> FALSE]
Found(a) == [some |-> TRUE, archive |-> a]

\* Iterator::max_by_key over the items and their keys: the last of the items
\* of greatest key
RECURSIVE max_by_key(_, _, _)
max_by_key(items, keys, best) ==
    IF items = <<>> THEN best
    ELSE IF ~best.some \/ Head(keys) >= best.key
         THEN max_by_key(Tail(items), Tail(keys),
                         [some |-> TRUE, archive |-> Head(items), key |-> Head(keys)])
         ELSE max_by_key(Tail(items), Tail(keys), best)

\* Box::find_latest_by_name; now is what Utc::now() returns during the call
find_latest_by_name(f, box, name, now) ==
    The({ The({ IF best.some THEN Found(best.archive) ELSE NotFound :
                best \in {max_by_key(beads,
                                     [i \in 1..Len(beads) |-> freeze_time(f, beads[i], now).secs],
                                     [some |-> FALSE])} }) :
          beads \in {find_by_name(f, box, name)} })

\* fs::metadata(path)?.modified() of an archive of the box
modified(f, path) ==
    The({ IF r.ok /\ r.path \in DOMAIN f.files
          THEN [ok |-> TRUE, time |-> f.files[r.path].mtime]
          ELSE [ok |-> FALSE, time |-> 0] :
          r \in {Resolve(f, path, TRUE)} })

\* the loop of find_newest_by_name: a bead replaces the newest one so far
\* when it was modified strictly later
RECURSIVE newest_of(_, _, _)
newest_of(f, beads, newest) ==
    IF beads = <<>> THEN newest
    ELSE The({ IF m.ok /\ (~newest.some \/ m.time > newest.time)
               THEN newest_of(f, Tail(beads), [some |-> TRUE, archive |-> Head(beads), time |-> m.time])
               ELSE newest_of(f, Tail(beads), newest) :
               m \in {modified(f, Head(beads).path)} })

\* Box::find_newest_by_name
find_newest_by_name(f, box, name) ==
    The({ IF newest.some THEN Found(newest.archive) ELSE NotFound :
          newest \in {newest_of(f, find_by_name(f, box, name), [some |-> FALSE])} })

\* DateTime<Utc> comparison t <= u
time_le(t, u) ==
    t.secs < u.secs \/ (t.secs = u.secs /\ t.micros <= u.micros)

\* the filter of find_by_name_before (after = FALSE: freeze_time() <= cutoff)
\* and of find_by_name_after (after = TRUE: freeze_time() > cutoff)
RECURSIVE filter_by_cutoff(_, _, _, _, _)
filter_by_cutoff(f, beads, cutoff, now, after) ==
    IF beads = <<>> THEN <<>>
    ELSE (IF time_le(freeze_time(f, Head(beads), now), cutoff) = ~after
          THEN <<Head(beads)>> ELSE <<>>)
         \o filter_by_cutoff(f, Tail(beads), cutoff, now, after)

\* Box::find_by_name_before
find_by_name_before(f, box, name, timestamp, now) ==
    The({ IF ~cutoff.ok THEN [ok |-> FALSE, err |-> "InvalidInput", beads |-> <<>>]
          ELSE [ok |-> TRUE, err |-> "none",
                beads |-> filter_by_cutoff(f, find_by_name(f, box, name), cutoff, now, FALSE)] :
          cutoff \in {parse_timestamp(timestamp)} })

\* Box::find_by_name_after
find_by_name_after(f, box, name, timestamp, now) ==
    The({ IF ~cutoff.ok THEN [ok |-> FALSE, err |-> "InvalidInput", beads |-> <<>>]
          ELSE [ok |-> TRUE, err |-> "none",
                beads |-> filter_by_cutoff(f, find_by_name(f, box, name), cutoff, now, TRUE)] :
          cutoff \in {parse_timestamp(timestamp)} })

\* Box::all_beads: the archives of location/*.zip that open
all_beads(f, box) ==
    open_each(f, box, glob(f, box.location, <<>>))

DUMMY_CONTENT_ID ==
    <<"d", "u", "m", "m", "y", "_", "c", "o", "n", "t", "e", "n", "t", "_", "i", "d">>

\* Archive::content_id: the content_id of the cache, else the dummy one
content_id(a) ==
    IF "content_id" \in DOMAIN a.cache THEN a.cache["content_id"] ELSE DUMMY_CONTENT_ID

\* the filter of find_by_kind: archive.kind() is the kind asked for
RECURSIVE filter_kind(_, _, _)
filter_kind(f, beads, k) ==
    IF beads = <<>> THEN <<>>
    ELSE (IF kind(f, Head(beads)).ok /\ kind(f, Head(beads)).kind = k
          THEN <<Head(beads)>> ELSE <<>>)
         \o filter_kind(f, Tail(beads), k)

\* Box::find_by_kind
find_by_kind(f, box, k) ==
    filter_kind(f, all_beads(f, box), k)

\* the filter of find_by_content_id_prefix
RECURSIVE filter_content_id(_, _)
filter_content_id(beads, prefix) ==
    IF beads = <<>> THEN <<>>
    ELSE (IF starts_with(content_id(Head(beads)), prefix) THEN <<Head(beads)>> ELSE <<>>)
         \o filter_content_id(Tail(beads), prefix)

\* Box::find_by_content_id_prefix
find_by_content_id_prefix(f, box, prefix) ==
    filter_content_id(all_beads(f, box), prefix)

\* filter(|archive| seen.insert(archive.path())): the first archive of every
\* path
RECURSIVE dedup_by_path(_, _)
dedup_by_path(beads, seen) ==
    IF beads = <<>> THEN <<>>
    ELSE IF Head(beads).path \in seen THEN dedup_by_path(Tail(beads), seen)
    ELSE <<Head(beads)>> \o dedup_by_path(Tail(beads), seen \cup {Head(beads).path})

find_by_ref_keeping_all(f, box, reference) ==
    find_by_name(f, box, reference)
       \o find_by_kind(f, box, reference)
       \o find_by_content_id_prefix(f, box, reference)

\* Box::find_by_ref
find_by_ref(f, box, reference) ==
    dedup_by_path(find_by_name(f, box, reference)
                     \o find_by_kind(f, box, reference)
                     \o find_by_content_id_prefix(f, box, reference),
                  {})

\* the glob of the query q of a box returns Err(PatternError)
box_scan_fails(box, q, arg) ==
    CASE q = "find_by_name" -> scan_fails(box, arg \o Underscore)
      [] q = "find_by_ref" -> scan_fails(box, arg \o Underscore) \/ scan_fails(box, <<>>)
      [] OTHER -> scan_fails(box, <<>>)

\* the query q of Box, with its Result
box_query(f, box, q, arg) ==
    IF box_scan_fails(box, q, arg) THEN [ok |-> FALSE, err |-> "IoError", beads |-> <<>>]
    ELSE [ok |-> TRUE, err |-> "none",
          beads |-> CASE q = "all_beads" -> all_beads(f, box)
                      [] q = "find_by_name" -> find_by_name(f, box, arg)
                      [] q = "find_by_kind" -> find_by_kind(f, box, arg)
                      [] q = "find_by_content_id_prefix" -> find_by_content_id_prefix(f, box, arg)
                      [] q = "find_by_ref" -> find_by_ref(f, box, arg)]

\* the loop of the queries of UnionBox: `if let Ok(beads)` extends the result
\* by what a member returns and passes over a member that returns Err
RECURSIVE union_extend(_, _, _, _)
union_extend(f, boxes, q, arg) ==
    IF boxes = <<>> THEN <<>>
    ELSE The({ (IF r.ok THEN r.beads ELSE <<>>) \o union_extend(f, Tail(boxes), q, arg) :
               r \in {box_query(f, Head(boxes), q, arg)} })

\* the query q of UnionBox, with its Result
union_query(f, boxes, q, arg) ==
    [ok |-> TRUE, err |-> "none",
     beads |-> IF q = "find_by_ref" THEN dedup_by_path(union_extend(f, boxes, q, arg), {})
               ELSE union_extend(f, boxes, q, arg)]

\* UnionBox::find_latest
union_find_latest(f, boxes, name, now) ==
    The({ The({ IF best.some THEN Found(best.archive) ELSE NotFound :
                best \in {max_by_key(beads,
                                     [i \in 1..Len(beads) |-> freeze_time(f, beads[i], now).secs],
                                     [some |-> FALSE])} }) :
          beads \in {union_query(f, boxes, "find_by_name", name).beads} })

(***************************************************************************)
(* SpecBox: a box at /b, empty at first.  Workspaces of a few names and    *)
(* kinds are stored (Box::store) or frozen (Archive::create) into it at a  *)
(* few timestamps; archives are opened and looked up.                      *)
(***************************************************************************)
N_w == <<"w">>
N_v == <<"v">>
N_w_x == <<"w", "_", "x">>
K_other == <<"j">>

\* 2024-01-15 12:00:00.000001 UTC
T_A ==
    <<"2", "0", "2", "4", "0", "1", "1", "5", "T", "1", "2", "0", "0", "0", "0",
      "0", "0", "0", "0", "0", "1", "+", "0", "0", "0", "0">>

\* 2024-01-15 13:00:00.000000 at +01:00, one microsecond before T_A
T_B ==
    <<"2", "0", "2", "4", "0", "1", "1", "5", "T", "1", "3", "0", "0", "0", "0",
      "0", "0", "0", "0", "0", "0", "+", "0", "1", "0", "0">>

BeadNames == { N_w, N_w_x }
QueryNames == { N_w, N_w_x, N_v }
Kinds == { K_kind, K_other }
Times == { T_A, T_B }

\* the clock during a lookup: after both timestamps
Nows == { [secs |-> 1800000000, micros |-> 0], [secs |-> 1800000001, micros |-> 7] }

BoxDir == <<C_b>>

BoxFs == [dirs |-> (<<>> :> MODE_RW) @@ (BoxDir :> MODE_RW) @@ (<<C_w>> :> MODE_RW),
          files |-> [x \in {} |-> <<>>], links |-> NoLinks, clock |-> 0]

TheBox == box_new(BoxFs, C_b, BoxDir).box

\* a workspace of directory /w/<name>
WorkspaceNamed(name, k) ==
    [directory |-> <<C_w, name>>, meta |-> new_workspace(k), input_map |-> NoInputs]

InitBox ==
    /\ privileged = FALSE
    /\ fs = BoxFs
    /\ arch = <<>>
    /\ dest = <<>>
    /\ ws = NoWorkspace
    /\ thr = NoThreads
    /\ ret = [op |-> "new", ok |-> box_new(BoxFs, C_b, BoxDir).ok]
    /\ steps = 0

BoxReturned(r) ==
    /\ ret' = r
    /\ UNCHANGED <<privileged, arch, dest, ws, thr, steps>>

Store ==
    \E name \in BeadNames, time \in Times :
       \E r \in {store(fs, TheBox, WorkspaceNamed(name, K_kind), time)} :
          /\ fs' = r.fs
          /\ BoxReturned([op |-> "store", ok |-> r.ok, err |-> r.err, name |-> name,
                          time |-> time, path |-> r.path,
                          fresh |-> glob(fs, BoxDir, name \o Underscore) = <<>>])

ArchiveCreate ==
    \E name \in BeadNames, k \in Kinds, time \in Times :
       \E r \in {archive_create(fs, join(BoxDir, archive_name(name, time)),
                                WorkspaceNamed(name, k), time)} :
          /\ fs' = r.fs
          /\ BoxReturned([op |-> "create", ok |-> r.ok, err |-> r.err, name |-> name,
                          kind |-> k, time |-> time, archive |-> r.archive])

ArchiveOpen ==
    \E name \in BeadNames, time \in Times :
       \E r \in {open(fs, join(BoxDir, archive_name(name, time)), C_b)} :
          /\ fs' = fs
          /\ BoxReturned([op |-> "open", ok |-> r.ok, err |-> r.err,
                          path |-> join(BoxDir, archive_name(name, time)),
                          archive |-> r.archive,
                          kind |-> IF r.ok THEN kind(fs, r.archive) ELSE [ok |-> FALSE, kind |-> None],
                          meta |-> IF r.ok THEN meta(fs, r.archive)
                                   ELSE [ok |-> FALSE, err |-> r.err, meta |-> NoMeta]])

FindByName ==
    \E name \in QueryNames :
       /\ fs' = fs
       /\ BoxReturned([op |-> "find_by_name", ok |-> TRUE, name |-> name,
                       found |-> find_by_name(fs, TheBox, name)])

FindLatestByName ==
    \E name \in QueryNames, now \in Nows :
       /\ fs' = fs
       /\ BoxReturned([op |-> "find_latest_by_name", ok |-> TRUE, name |-> name, now |-> now,
                       found |-> find_latest_by_name(fs, TheBox, name, now)])

NextBox ==
    \/ Store
    \/ ArchiveCreate
    \/ ArchiveOpen
    \/ FindByName
    \/ FindLatestByName

SpecBox == InitBox /\ [][NextBox]_vars

(***************************************************************************)
(* SpecRace: two threads inside Box::store on the same box.  A thread      *)
(* first asks whether the file exists and then, in a second system call,   *)
(* creates it; the threads interleave between the two.                     *)
(***************************************************************************)
Threads == { "t1", "t2" }

\* the path Box::store computes
store_archive_path(box, w, time) ==
    join(box.location, archive_name(workspace_name(w), time))

Calls ==
    { [pc |-> "exists", name |-> n, time |-> t, ok |-> FALSE, err |-> "none", truncated |-> FALSE] :
      n \in BeadNames, t \in Times }

InitRace ==
    /\ privileged = FALSE
    /\ fs = BoxFs
    /\ arch = <<>>
    /\ dest = <<>>
    /\ ws = NoWorkspace
    /\ thr \in [Threads -> Calls]
    /\ ret = [op |-> "new", ok |-> box_new(BoxFs, C_b, BoxDir).ok]
    /\ steps = 0

\* archive_path.exists(): AlreadyExists when it does
StoreExists(t) ==
    /\ thr[t].pc = "exists"
    /\ \E p \in {store_archive_path(TheBox, WorkspaceNamed(thr[t].name, K_kind), thr[t].time)} :
          thr' = [thr EXCEPT ![t] =
                     IF path_exists(fs, p)
                     THEN [@ EXCEPT !.pc = "done", !.err = "AlreadyExists"]
                     ELSE [@ EXCEPT !.pc = "create"]]
    /\ UNCHANGED <<privileged, fs, arch, dest, ws, ret, steps>>

\* fs::File::create(&archive_path)?, then Ok(archive_path)
StoreFileCreate(t) ==
    /\ thr[t].pc = "create"
    /\ \E p \in {store_archive_path(TheBox, WorkspaceNamed(thr[t].name, K_kind), thr[t].time)} :
          \E made \in {file_create(fs, p, EmptyFile)} :
             /\ fs' = made.fs
             /\ thr' = [thr EXCEPT ![t] =
                           [@ EXCEPT !.pc = "done", !.ok = made.ok,
                                     !.err = IF made.ok THEN "none" ELSE "IoError",
                                     !.truncated = path_exists(fs, p)]]
    /\ UNCHANGED <<privileged, arch, dest, ws, ret, steps>>

NextRace ==
    \/ \E t \in Threads : StoreExists(t)
    \/ \E t \in Threads : StoreFileCreate(t)

SpecRace == InitRace /\ [][NextRace]_vars

(***************************************************************************)
(* SpecNewest: archives of the one name w are frozen into the box at three *)
(* freeze_times while the clock of the filesystem advances, and the latest *)
(* and the newest archive are looked up.                                   *)
(***************************************************************************)
\* 2024-01-14 12:00:00.000000 UTC, before T_B and T_A
T_0 ==
    <<"2", "0", "2", "4", "0", "1", "1", "4", "T", "1", "2", "0", "0", "0", "0",
      "0", "0", "0", "0", "0", "0", "+", "0", "0", "0", "0">>

NewestTimes == { T_0, T_A, T_B }

MaxClock == 2

InitNewest ==
    /\ privileged = FALSE
    /\ fs = BoxFs
    /\ arch = <<>>
    /\ dest = <<>>
    /\ ws = NoWorkspace
    /\ thr = NoThreads
    /\ ret = [op |-> "new", ok |-> box_new(BoxFs, C_b, BoxDir).ok]
    /\ steps = 0

\* time passes between two writes
Tick ==
    /\ fs.clock < MaxClock
    /\ fs' = [fs EXCEPT !.clock = @ + 1]
    /\ UNCHANGED <<privileged, arch, dest, ws, thr, ret, steps>>

FreezeW ==
    \E time \in NewestTimes :
       \E r \in {archive_create(fs, join(BoxDir, archive_name(N_w, time)),
                                WorkspaceNamed(N_w, K_kind), time)} :
          /\ fs' = r.fs
          /\ BoxReturned([op |-> "create", ok |-> r.ok, err |-> r.err, name |-> N_w,
                          kind |-> K_kind, time |-> time, archive |-> r.archive])

FindNewestOfW ==
    /\ fs' = fs
    /\ BoxReturned([op |-> "find_newest_by_name", ok |-> TRUE, name |-> N_w,
                    found |-> find_newest_by_name(fs, TheBox, N_w)])

FindLatestOfW ==
    \E now \in Nows :
       /\ fs' = fs
       /\ BoxReturned([op |-> "find_latest_by_name", ok |-> TRUE, name |-> N_w, now |-> now,
                       found |-> find_latest_by_name(fs, TheBox, N_w, now)])

NextNewest ==
    \/ Tick
    \/ FreezeW
    \/ FindNewestOfW
    \/ FindLatestOfW

SpecNewest == InitNewest /\ [][NextNewest]_vars

(***************************************************************************)
(* SpecCutoff: archives of w are stored and frozen into the box, and the   *)
(* archives of a name are looked up before and after a cutoff.             *)
(***************************************************************************)
\* 2027-01-15 08:00:00.000000 UTC, the first of Nows
T_N ==
    <<"2", "0", "2", "7", "0", "1", "1", "5", "T", "0", "8", "0", "0", "0", "0",
      "0", "0", "0", "0", "0", "0", "+", "0", "0", "0", "0">>

\* too short for a timestamp
T_short == <<"2", "0", "2", "4">>

Cutoffs == { T_B, T_N, T_short }

StoreW ==
    \E time \in Times :
       \E r \in {store(fs, TheBox, WorkspaceNamed(N_w, K_kind), time)} :
          /\ fs' = r.fs
          /\ BoxReturned([op |-> "store", ok |-> r.ok, err |-> r.err, name |-> N_w,
                          time |-> time, path |-> r.path])

FindByNameBefore ==
    \E name \in {N_w, N_v}, cutoff \in Cutoffs, now \in Nows :
       \E r \in {find_by_name_before(fs, TheBox, name, cutoff, now)} :
          /\ fs' = fs
          /\ BoxReturned([op |-> "find_by_name_before", ok |-> r.ok, err |-> r.err,
                          name |-> name, cutoff |-> cutoff, now |-> now, beads |-> r.beads])

FindByNameAfter ==
    \E name \in {N_w, N_v}, cutoff \in Cutoffs, now \in Nows :
       \E r \in {find_by_name_after(fs, TheBox, name, cutoff, now)} :
          /\ fs' = fs
          /\ BoxReturned([op |-> "find_by_name_after", ok |-> r.ok, err |-> r.err,
                          name |-> name, cutoff |-> cutoff, now |-> now, beads |-> r.beads])

NextCutoff ==
    \/ StoreW
    \/ FreezeW
    \/ FindByNameBefore
    \/ FindByNameAfter

SpecCutoff == InitNewest /\ [][NextCutoff]_vars

(***************************************************************************)
(* SpecRef: archives are frozen into the box under several file names, one *)
(* of them gets a cache file, and archives are looked up by reference.     *)
(***************************************************************************)
\* a content id starting with the kind k
CID_k == <<"k", "9">>

\* workspace name and archive file name
RefFiles ==
    { <<N_w, archive_name(N_w, T_A)>>,
      <<N_w, N_w \o DOT_ZIP>>,
      <<C_d, archive_name(C_d, T_A)>> }

RefKinds == { K_kind, C_d }

References == { N_w, C_d, K_kind, <<>> }

FreezeAs ==
    \E nf \in RefFiles :
     \E k \in (IF nf[1] = C_d THEN RefKinds ELSE {K_kind}) :
       \E r \in {archive_create(fs, join(BoxDir, nf[2]), WorkspaceNamed(nf[1], k), T_A)} :
          /\ fs' = r.fs
          /\ BoxReturned([op |-> "create", ok |-> r.ok, err |-> r.err, name |-> nf[1],
                          kind |-> k, file |-> nf[2]])

\* the cache file next to the archive of d gets a content id
WriteCache ==
    \E r \in {file_create(fs, with_extension(join(BoxDir, archive_name(C_d, T_A)), DOT_XMETA),
                          [zip |-> FALSE, cache |-> ("content_id" :> CID_k)])} :
       /\ fs' = r.fs
       /\ BoxReturned([op |-> "write_cache", ok |-> r.ok])

FindByRef ==
    \E reference \in References :
       /\ fs' = fs
       /\ BoxReturned([op |-> "find_by_ref", ok |-> TRUE, reference |-> reference,
                       beads |-> find_by_ref(fs, TheBox, reference)])

NextRef ==
    \/ FreezeAs
    \/ StoreW
    \/ WriteCache
    \/ FindByRef

SpecRef == InitNewest /\ [][NextRef]_vars

(***************************************************************************)
(* SpecAll: archives and stray files get into the box directory, and all   *)
(* the beads of the box are listed.                                        *)
(***************************************************************************)
\* a file that is no .zip, .zip files whose name is no bead name, and a
\* .zip file of a bead name that is no ZIP container
Strays ==
    { <<"n", ".", "t", "x", "t">>, <<"_", "x">> \o DOT_ZIP, Dot \o DOT_ZIP, N_v \o DOT_ZIP }

PutStray ==
    \E n \in Strays :
       \E r \in {file_create(fs, join(BoxDir, n), EmptyFile)} :
          /\ fs' = r.fs
          /\ BoxReturned([op |-> "stray", ok |-> r.ok, file |-> n])

AllBeads ==
    /\ fs' = fs
    /\ BoxReturned([op |-> "all_beads", ok |-> ~scan_fails(TheBox, <<>>),
                    beads |-> IF scan_fails(TheBox, <<>>) THEN <<>> ELSE all_beads(fs, TheBox)])

NextAll ==
    \/ FreezeAs
    \/ PutStray
    \/ AllBeads

SpecAll == InitNewest /\ [][NextAll]_vars

(***************************************************************************)
(* SpecUnion: the boxes /b, /c and /[ ; archives of w are frozen into /b   *)
(* and /c, the owner takes away and gives back the read permission of /c,  *)
(* and the boxes and unions of them are queried.                           *)
(***************************************************************************)
C_c == <<"c">>
C_bracket == <<"[">>

UnionFs ==
    [BoxFs EXCEPT !.dirs = (<<C_c>> :> MODE_RW) @@ (<<C_bracket>> :> MODE_RW) @@ @]

Box_c == box_new(UnionFs, C_c, <<C_c>>).box
Box_bracket == box_new(UnionFs, C_bracket, <<C_bracket>>).box

Boxes == { TheBox, Box_c, Box_bracket }

Unions == { <<Box_c, TheBox>>, <<TheBox, TheBox>>, <<Box_bracket, TheBox>> }

\* the queries and their argument: a name, a kind, a prefix of a content id;
\* every archive is a match of the reference d by its content id
Queries ==
    { <<"all_beads", <<>>>>, <<"find_by_name", N_w>>, <<"find_by_kind", K_kind>>,
      <<"find_by_content_id_prefix", C_d>>, <<"find_by_ref", N_w>>, <<"find_by_ref", C_d>> }

\* the mode without the read permission of the owner
WithoutRead(mode) ==
    mode - 256

InitUnion ==
    /\ privileged = FALSE
    /\ fs = UnionFs
    /\ arch = <<>>
    /\ dest = <<>>
    /\ ws = NoWorkspace
    /\ thr = NoThreads
    /\ ret = [op |-> "new", ok |-> \A box \in Boxes : box_new(UnionFs, box.name, box.location).ok]
    /\ steps = 0

FreezeInto ==
    \E box \in { TheBox, Box_c }, time \in Times :
       \E r \in {archive_create(fs, Append(box.location, archive_name(N_w, time)),
                                WorkspaceNamed(N_w, K_kind), time)} :
          /\ fs' = r.fs
          /\ BoxReturned([op |-> "create", ok |-> r.ok, err |-> r.err, box |-> box,
                          time |-> time])

\* chmod of the directory of the box c
Chmod ==
    \E mode \in { MODE_RW, WithoutRead(MODE_RW) } :
       \E r \in {set_permissions(fs, <<C_c>>, mode)} :
          /\ fs' = r.fs
          /\ BoxReturned([op |-> "chmod", ok |-> r.ok, mode |-> mode])

BoxQuery ==
    \E box \in Boxes, qa \in Queries :
       \E r \in {box_query(fs, box, qa[1], qa[2])} :
          /\ fs' = fs
          /\ BoxReturned([op |-> "box_query", q |-> qa[1], boxes |-> <<box>>, arg |-> qa[2],
                          ok |-> r.ok, err |-> r.err, beads |-> r.beads])

UnionQuery ==
    \E boxes \in Unions, qa \in Queries :
       \E r \in {union_query(fs, boxes, qa[1], qa[2])} :
          /\ fs' = fs
          /\ BoxReturned([op |-> "union_query", q |-> qa[1], boxes |-> boxes, arg |-> qa[2],
                          ok |-> r.ok, err |-> r.err, beads |-> r.beads])

UnionFindLatest ==
    \E boxes \in Unions, now \in Nows :
       /\ fs' = fs
       /\ BoxReturned([op |-> "find_latest", ok |-> TRUE, boxes |-> boxes, name |-> N_w,
                       now |-> now, found |-> union_find_latest(fs, boxes, N_w, now)])

NextUnion ==
    \/ FreezeInto
    \/ Chmod
    \/ BoxQuery
    \/ UnionQuery
    \/ UnionFindLatest

SpecUnion == InitUnion /\ [][NextUnion]_vars

(***************************************************************************)
(* SpecLayout: workspaces are created at /w, at /p (a directory that is    *)
(* there already) and at /q/w; the owner removes a part of /w or           *)
(* overwrites its files; workspaces are opened.                            *)
(***************************************************************************)
LayoutFs ==
    [RootFs EXCEPT !.dirs = (<<C_p>> :> MODE_RW) @@ @]

LayoutDirs == { <<C_w>>, <<C_p>>, <<C_q, C_w>> }

\* what is no JSON of the type expected
Garbage == [garbage |-> TRUE]

\* the content of an input map file
MapFile == [input_map |-> (C_a :> N_v)]

InitLayout ==
    /\ privileged = FALSE
    /\ fs = LayoutFs
    /\ arch = <<>>
    /\ dest = <<>>
    /\ ws = NoWorkspace
    /\ thr = NoThreads
    /\ ret = [op |-> "none", ok |-> TRUE, err |-> "none"]
    /\ steps = 0

LayoutReturned(op, directory, k, r) ==
    /\ fs' = r.fs
    /\ ws' = r.ws
    /\ ret' = [op |-> op, ok |-> r.ok, err |-> r.err, directory |-> directory, kind |-> k]
    /\ UNCHANGED <<privileged, arch, dest, thr, steps>>

WorkspaceCreate ==
    \E directory \in LayoutDirs, k \in Kinds :
       \E r \in {create(fs, directory, k)} : LayoutReturned("create", directory, k, r)

WorkspaceOpen ==
    \E directory \in LayoutDirs :
       \E r \in {workspace_open(fs, directory)} : LayoutReturned("open", directory, <<>>, r)

\* the owner removes temp/ of /w, or overwrites the metadata or the input map
Damage ==
    \E r \in { remove_dir_all(fs, join(<<C_w>>, L_TEMP)),
               file_create(fs, join(<<C_w>>, L_BEAD_META), Garbage),
               file_create(fs, join(<<C_w>>, L_INPUT_MAP), Garbage),
               file_create(fs, join(<<C_w>>, L_INPUT_MAP), MapFile) } :
       /\ r.ok
       /\ fs' = r.fs
       /\ ret' = [op |-> "damage", ok |-> TRUE, err |-> "none"]
       /\ UNCHANGED <<privileged, arch, dest, ws, thr, steps>>

NextLayout ==
    \/ WorkspaceCreate
    \/ WorkspaceOpen
    \/ Damage

SpecLayout == InitLayout /\ [][NextLayout]_vars

(***************************************************************************)
(* SpecInputs: on the workspace /w inputs are declared, given a bead name, *)
(* loaded and deleted.                                                     *)
(***************************************************************************)
A__B == <<"a", "_", "_", "b">>
A_BACKSLASH_B == <<"a", "\\", "b">>

DeclaredNames == { C_a, A__B, A_BACKSLASH_B, DotDot }

DeletedNames == { C_a, C_b }

SpecsOfInputs ==
    InputSpecs \cup { [kind |-> K_other, content_id |-> <<"2">>, freeze_time |-> <<"u">>] }

LoadedArchive == << DATA_PREFIX \o <<"f">> >>

InputsReturned(op, name, spec, r) ==
    /\ fs' = r.fs
    /\ ws' = r.ws
    /\ ret' = [op |-> op, ok |-> r.ok, err |-> r.err, name |-> name, spec |-> spec]
    /\ UNCHANGED <<privileged, arch, dest, thr, steps>>

DeclareInput ==
    \E name \in DeclaredNames, spec \in SpecsOfInputs :
       \E r \in {add_input(fs, ws, name, spec)} : InputsReturned("add_input", name, spec, r)

NameInput ==
    \E name \in DeletedNames :
       \E r \in {set_input_bead_name(fs, ws, name, N_v)} :
          InputsReturned("set_input_bead_name", name, <<>>, r)

LoadDeclared ==
    \E r \in {load_input(fs, ws, C_a, LoadedArchive)} :
       InputsReturned("load_input", C_a, <<>>, r)

DeleteInput ==
    \E name \in DeletedNames :
       \E r \in {delete_input(fs, ws, name)} : InputsReturned("delete_input", name, <<>>, r)

NextInputs ==
    \/ DeclareInput
    \/ NameInput
    \/ LoadDeclared
    \/ DeleteInput

SpecInputs == InitWs /\ [][NextInputs]_vars

(***************************************************************************)
(* SpecUpdate: on the workspace /w inputs are declared, loaded, updated to *)
(* another version, loaded all at once, and the workspace is deleted.      *)
(***************************************************************************)
NextVersion == << DATA_PREFIX \o <<"g">> >>

\* the second entry needs a directory where the first left a file
BrokenArchive == << DATA_PREFIX \o <<"f">>, DATA_PREFIX \o <<"f", "/", "g">> >>

UpdArchives == { LoadedArchive, NextVersion, BrokenArchive }

ArchiveLists == { <<>>, <<LoadedArchive>>, <<NextVersion, LoadedArchive>> }

UpdNames == { C_a, C_b }

\* the spec of the version an input is updated to
NewSpec == The(SpecsOfInputs \ InputSpecs)

\* the orders in which a HashMap may yield its keys
Orders(S) ==
    { s \in [1..Cardinality(S) -> S] : \A x \in S : \E i \in 1..Cardinality(S) : s[i] = x }

\* delete(self) consumes the workspace
Live == ret.op # "delete"

UpdReturned(op, name, spec, archive, r) ==
    /\ fs' = r.fs
    /\ ws' = r.ws
    /\ arch' = archive
    /\ ret' = [op |-> op, ok |-> r.ok, err |-> r.err, name |-> name, spec |-> spec,
               names |-> <<>>, archives |-> <<>>, results |-> <<>>]
    /\ UNCHANGED <<privileged, dest, thr, steps>>

UpdDeclare ==
    /\ Live
    /\ \E name \in UpdNames :
          \E r \in {add_input(fs, ws, name, The(InputSpecs))} :
             UpdReturned("add_input", name, The(InputSpecs), arch, r)

UpdLoad ==
    /\ Live
    /\ \E name \in UpdNames :
          \E r \in {load_input(fs, ws, name, LoadedArchive)} :
             UpdReturned("load_input", name, <<>>, LoadedArchive, r)

UpdateInput ==
    /\ Live
    /\ \E name \in UpdNames, archive \in UpdArchives :
          \E r \in {update_input(fs, ws, name, NewSpec, archive)} :
             UpdReturned("update_input", name, NewSpec, archive, r)

LoadAllInputs ==
    /\ Live
    /\ \E archives \in ArchiveLists, names \in Orders(DOMAIN ws.meta.inputs) :
          \E r \in {load_all_inputs(fs, ws, names, archives)} :
             /\ fs' = r.fs
             /\ ws' = r.ws
             /\ ret' = [op |-> "load_all_inputs", ok |-> TRUE, err |-> "none", name |-> <<>>,
                        spec |-> <<>>, names |-> names, archives |-> archives,
                        results |-> r.results]
             /\ UNCHANGED <<privileged, arch, dest, thr, steps>>

Delete ==
    /\ Live
    /\ \E r \in {workspace_delete(fs, ws)} : UpdReturned("delete", <<>>, <<>>, arch, r)

NextUpdate ==
    \/ UpdDeclare
    \/ UpdLoad
    \/ UpdateInput
    \/ LoadAllInputs
    \/ Delete

SpecUpdate == InitWs /\ [][NextUpdate]_vars

(***************************************************************************)
(* SpecValidate: a ZIP file and a cache file are written into the box /b,  *)
(* with and without the entries an archive has; a path is opened, and the  *)
(* open archive is validated.  The files stay as they are while an archive *)
(* is open.                                                                *)
(***************************************************************************)
ValidPath == join(BoxDir, archive_name(N_w, T_A))

MissingPath == join(BoxDir, archive_name(N_v, T_A))

\* the metadata of w frozen at T_A
FrozenW == frozen_meta(WorkspaceNamed(N_w, K_kind), T_A)

\* ZIP files: without meta/manifest, without meta/bead, with a meta/bead that
\* is no BeadMeta, and a file that is no ZIP
ZipFiles ==
    { [zip |-> TRUE, meta |-> FrozenW, input_map |-> NoInputs],
      [zip |-> TRUE, manifest |-> NoCache, input_map |-> NoInputs],
      [zip |-> TRUE, meta |-> Garbage, manifest |-> NoCache, input_map |-> NoInputs],
      EmptyFile }

\* cache files: with a BeadMeta, with a meta that is none, without meta
CacheFiles ==
    { [zip |-> FALSE, cache |-> ("meta" :> FrozenW)],
      [zip |-> FALSE, cache |-> ("meta" :> Garbage)],
      [zip |-> FALSE, cache |-> ("content_id" :> CID_k)] }

InitValidate ==
    /\ privileged = FALSE
    /\ fs = BoxFs
    /\ arch = NoArchive
    /\ dest = <<>>
    /\ ws = NoWorkspace
    /\ thr = NoThreads
    /\ ret = [op |-> "new", ok |-> box_new(BoxFs, C_b, BoxDir).ok, err |-> "none",
              path |-> <<>>]
    /\ steps = 0

ValidateReturned(op, r, path) ==
    /\ ret' = [op |-> op, ok |-> r.ok, err |-> r.err, path |-> path]
    /\ UNCHANGED <<privileged, dest, ws, thr, steps>>

PutZip ==
    /\ arch = NoArchive
    /\ \E data \in ZipFiles :
          \E r \in {file_create(fs, ValidPath, data)} :
             /\ fs' = r.fs
             /\ arch' = arch
             /\ ValidateReturned("put", [ok |-> r.ok, err |-> "none"], ValidPath)

PutCache ==
    /\ arch = NoArchive
    /\ \E data \in CacheFiles :
          \E r \in {file_create(fs, with_extension(ValidPath, DOT_XMETA), data)} :
             /\ fs' = r.fs
             /\ arch' = arch
             /\ ValidateReturned("put", [ok |-> r.ok, err |-> "none"],
                                 with_extension(ValidPath, DOT_XMETA))

CreateArchive ==
    /\ arch = NoArchive
    /\ \E r \in {archive_create(fs, ValidPath, WorkspaceNamed(N_w, K_kind), T_A)} :
          /\ fs' = r.fs
          /\ arch' = r.archive
          /\ ValidateReturned("create", r, ValidPath)

OpenArchive ==
    /\ arch = NoArchive
    /\ \E path \in {ValidPath, MissingPath} :
          \E r \in {open(fs, path, C_b)} :
             /\ fs' = fs
             /\ arch' = r.archive
             /\ ValidateReturned("open", r, path)

Validate ==
    /\ arch # NoArchive
    /\ \E r \in {validate(fs, arch)} :
          /\ fs' = fs
          /\ arch' = arch
          /\ ValidateReturned("validate", r, arch.path)

\* the handle is dropped
Drop ==
    /\ arch # NoArchive
    /\ fs' = fs
    /\ arch' = NoArchive
    /\ ValidateReturned("drop", [ok |-> TRUE, err |-> "none"], arch.path)

NextValidate ==
    \/ PutZip
    \/ PutCache
    \/ CreateArchive
    \/ OpenArchive
    \/ Validate
    \/ Drop

SpecValidate == InitValidate /\ [][NextValidate]_vars

(***************************************************************************)
(* SpecLive: a workspace /w/w lives beside the box /b.  Inputs are         *)
(* declared, named, loaded, updated and deleted, the workspace is frozen   *)
(* into the box and opened again, and archives of the box are opened and   *)
(* unpacked into the workspace.                                            *)
(***************************************************************************)
LiveDir == <<C_w, N_w>>

BeadPath == join(BoxDir, archive_name(N_v, T_A))

\* a bead of another workspace, with an input and code in it
BeadFile ==
    [zip |-> TRUE,
     meta |-> [meta_add_input(new_workspace(K_other), C_b, NewSpec)
                  EXCEPT !.freeze_time = T_A, !.freeze_name = N_v],
     manifest |-> NoCache,
     input_map |-> NoInputs,
     entries |-> << CODE_PREFIX \o <<"m">> >>]

InitLive ==
    /\ privileged = FALSE
    /\ \E r \in {create(BoxFs, LiveDir, K_kind)} :
          /\ r.ok
          /\ fs = r.fs
          /\ ws = r.ws
    /\ arch = NoArchive
    /\ dest = <<>>
    /\ thr = NoThreads
    /\ ret = [op |-> "create", ok |-> TRUE, err |-> "none"]
    /\ steps = 0

LiveReturned(op, r) ==
    /\ fs' = r.fs
    /\ ws' = r.ws
    /\ arch' = arch
    /\ ret' = [op |-> op, ok |-> r.ok, err |-> r.err]
    /\ UNCHANGED <<privileged, dest, thr, steps>>

LiveAddInput ==
    \E r \in {add_input(fs, ws, C_a, The(InputSpecs))} : LiveReturned("add_input", r)

LiveDeleteInput ==
    \E r \in {delete_input(fs, ws, C_a)} : LiveReturned("delete_input", r)

LiveLoadInput ==
    \E r \in {load_input(fs, ws, C_a, LoadedArchive)} : LiveReturned("load_input", r)

LiveUnloadInput ==
    \E r \in {unload_input(fs, ws, C_a)} : LiveReturned("unload_input", r)

LiveUpdateInput ==
    \E r \in {update_input(fs, ws, C_a, NewSpec, NextVersion)} :
       LiveReturned("update_input", r)

LiveSetInputBeadName ==
    \E r \in {set_input_bead_name(fs, ws, C_a, N_v)} : LiveReturned("set_input_bead_name", r)

\* Workspace::open of the directory: the workspace opened replaces the one held
LiveOpen ==
    \E r \in {workspace_open(fs, LiveDir)} :
       LiveReturned("open", IF r.ok THEN r ELSE WErr(fs, ws, r.err))

\* Archive::create of the workspace into the box
LiveFreeze ==
    \E r \in {archive_create(fs, ValidPath, ws, T_A)} :
       /\ fs' = r.fs
       /\ arch' = IF r.ok THEN r.archive ELSE arch
       /\ ret' = [op |-> "archive_create", ok |-> r.ok, err |-> r.err]
       /\ UNCHANGED <<privileged, ws, dest, thr, steps>>

\* the bead of another workspace gets into the box
LivePutBead ==
    /\ ~path_exists(fs, BeadPath)
    /\ \E r \in {file_create(fs, BeadPath, BeadFile)} :
          /\ fs' = r.fs
          /\ ret' = [op |-> "put", ok |-> r.ok, err |-> "none"]
          /\ UNCHANGED <<privileged, ws, arch, dest, thr, steps>>

LiveOpenArchive ==
    \E path \in {ValidPath, BeadPath} :
       \E r \in {open(fs, path, C_b)} :
          /\ arch' = IF r.ok THEN r.archive ELSE arch
          /\ ret' = [op |-> "archive_open", ok |-> r.ok, err |-> r.err]
          /\ UNCHANGED <<privileged, fs, ws, dest, thr, steps>>

LiveUnpackTo ==
    /\ arch # NoArchive
    /\ \E r \in {unpack_to(fs, arch, ws)} : LiveReturned("unpack_to", r)

NextLive ==
    \/ LiveAddInput
    \/ LiveDeleteInput
    \/ LiveLoadInput
    \/ LiveUnloadInput
    \/ LiveUpdateInput
    \/ LiveSetInputBeadName
    \/ LiveOpen
    \/ LiveFreeze
    \/ LivePutBead
    \/ LiveOpenArchive
    \/ LiveUnpackTo

SpecLive == InitLive /\ [][NextLive]_vars

(***************************************************************************)
(* SpecNames: names of every kind are given to InputName::new and to       *)
(* BeadName::new.                                                          *)
(***************************************************************************)
MaxNameLen == 3

NameChars == { "a", ".", "_", "/", "\\" }

Names == UNION { [1..n -> NameChars] : n \in 0..MaxNameLen }

InitNames ==
    /\ privileged = FALSE
    /\ fs = RootFs
    /\ arch = NoArchive
    /\ dest = <<>>
    /\ ws = NoWorkspace
    /\ thr = NoThreads
    /\ ret = [op |-> "none", ok |-> TRUE, err |-> "none", arg |-> <<>>, name |-> <<>>]
    /\ steps = 0

NameReturned(op, arg, r) ==
    /\ ret' = [op |-> op, ok |-> r.ok, err |-> r.err, arg |-> arg, name |-> r.name]
    /\ UNCHANGED <<privileged, fs, arch, dest, ws, thr, steps>>

InputNameNew ==
    \E name \in Names : NameReturned("InputName::new", name, InputName_new(name))

BeadNameNew ==
    \E name \in Names : NameReturned("BeadName::new", name, BeadName_new(name))

NextNames ==
    \/ InputNameNew
    \/ BeadNameNew

SpecNames == InitNames /\ [][NextNames]_vars

(***************************************************************************)
(* Input (input.rs): the value that stands for one input of a workspace.   *)
(***************************************************************************)
IOk(f, i) == [ok |-> TRUE, err |-> "none", fs |-> f, input |-> i]
IErr(f, i, e) == [ok |-> FALSE, err |-> e, fs |-> f, input |-> i]

\* Input::new: loaded is whether the path exists now
Input_new(f, name, spec, workspace_dir) ==
    [name |-> name, spec |-> spec,
     loaded |-> path_exists(f, join(join(workspace_dir, L_INPUT), name)),
     path |-> join(join(workspace_dir, L_INPUT), name)]

\* Input::load
Input_load(f, i, archive) ==
    IF i.loaded THEN IOk(f, i)
    ELSE The({ IF ~made.ok THEN IErr(made.fs, i, "IoError")
          ELSE The({ IF ~data.ok THEN IErr(data.fs, i, data.err)
                ELSE The({ IF ~locked.ok THEN IErr(locked.fs, i, "IoError")
                           ELSE IOk(locked.fs, [i EXCEPT !.loaded = TRUE]) :
                           locked \in {set_permissions(data.fs, i.path, MODE_RO)} }) :
                data \in {unpack_data_to(made.fs, archive, i.path)} }) :
          made \in {create_dir_all(f, i.path)} })

\* Input::unload
Input_unload(f, i) ==
    IF ~i.loaded THEN IOk(f, i)
    ELSE The({ IF ~wide.ok THEN IErr(wide.fs, i, "IoError")
          ELSE The({ IF ~gone.ok THEN IErr(gone.fs, i, "IoError")
                     ELSE IOk(gone.fs, [i EXCEPT !.loaded = FALSE]) :
                     gone \in {remove_dir_all(wide.fs, i.path)} }) :
          wide \in {set_permissions(f, i.path, MODE_RW)} })

\* Input::update
Input_update(f, i, new_spec, archive) ==
    The({ IF ~unloaded.ok THEN unloaded
          ELSE Input_load(unloaded.fs, [unloaded.input EXCEPT !.spec = new_spec], archive) :
          unloaded \in {IF i.loaded THEN Input_unload(f, i) ELSE IOk(f, i)} })

(***************************************************************************)
(* SpecInput: the workspace /w has the declared input a.  An Input value   *)
(* for a and a clone of it are held (in arch); the slot is loaded,         *)
(* unloaded and updated through either of them and through the workspace.  *)
(***************************************************************************)
Holders == { "input", "clone" }

InitInput ==
    /\ privileged \in BOOLEAN
    /\ \E r \in {create(RootFs, WsDir, K_kind)} :
          \E d \in {add_input(r.fs, r.ws, C_a, The(InputSpecs))} :
             /\ d.ok
             /\ fs = d.fs
             /\ ws = d.ws
             /\ arch = [h \in Holders |-> Input_new(d.fs, C_a, The(InputSpecs), WsDir)]
    /\ dest = <<>>
    /\ thr = NoThreads
    /\ ret = [op |-> "Input::new", ok |-> TRUE, err |-> "none", holder |-> "input"]
    /\ steps = 0

InputReturned(op, h, r) ==
    /\ fs' = r.fs
    /\ arch' = [arch EXCEPT ![h] = r.input]
    /\ ret' = [op |-> op, ok |-> r.ok, err |-> r.err, holder |-> h]
    /\ UNCHANGED <<privileged, ws, dest, thr, steps>>

InputLoad ==
    \E h \in Holders, archive \in {LoadedArchive, BrokenArchive} :
       \E r \in {Input_load(fs, arch[h], archive)} : InputReturned("Input::load", h, r)

InputUnload ==
    \E h \in Holders :
       \E r \in {Input_unload(fs, arch[h])} : InputReturned("Input::unload", h, r)

InputUpdate ==
    \E h \in Holders :
       \E r \in {Input_update(fs, arch[h], NewSpec, NextVersion)} :
          InputReturned("Input::update", h, r)

\* input.clone()
InputClone ==
    /\ arch' = [arch EXCEPT !["clone"] = arch["input"]]
    /\ ret' = [op |-> "clone", ok |-> TRUE, err |-> "none", holder |-> "clone"]
    /\ UNCHANGED <<privileged, fs, ws, dest, thr, steps>>

WsCalled(op, r) ==
    /\ fs' = r.fs
    /\ ws' = r.ws
    /\ ret' = [op |-> op, ok |-> r.ok, err |-> r.err, holder |-> "workspace"]
    /\ UNCHANGED <<privileged, arch, dest, thr, steps>>

WsLoadInput ==
    \E r \in {load_input(fs, ws, C_a, LoadedArchive)} : WsCalled("load_input", r)

WsUnloadInput ==
    \E r \in {unload_input(fs, ws, C_a)} : WsCalled("unload_input", r)

NextInput ==
    \/ InputLoad
    \/ InputUnload
    \/ InputUpdate
    \/ InputClone
    \/ WsLoadInput
    \/ WsUnloadInput

SpecInput == InitInput /\ [][NextInput]_vars

(***************************************************************************)
(* SpecSlots: on the workspace /w inputs are declared, loaded from         *)
(* archives with data, without data and with data that does not extract,   *)
(* unloaded, updated and deleted; and the empty input/ directory is        *)
(* removed from outside.                                                   *)
(***************************************************************************)
NoDataArchive == << CODE_PREFIX \o <<"m">> >>

SlotArchives == { LoadedArchive, BrokenArchive, NoDataArchive }

\* fs::remove_dir: the directory is empty and its parent may be written
remove_dir(f, p) ==
    The({ IF ~r.ok \/ r.path = <<>> THEN Fail(f)
          ELSE IF r.path \notin DOMAIN f.dirs \/ Below(f, r.path) # {} THEN Fail(f)
          ELSE IF ~MayWrite(f.dirs[parent(r.path)]) THEN Fail(f)
          ELSE Done([f EXCEPT !.dirs = Without(@, {r.path})]) :
          r \in {Resolve(f, p, FALSE)} })

SlotsReturned(op, name, archive, r) ==
    /\ fs' = r.fs
    /\ ws' = r.ws
    /\ arch' = archive
    /\ ret' = [op |-> op, ok |-> r.ok, err |-> r.err, name |-> name]
    /\ UNCHANGED <<privileged, dest, thr, steps>>

SlotsAddInput ==
    \E name \in UpdNames :
       \E r \in {add_input(fs, ws, name, The(InputSpecs))} :
          SlotsReturned("add_input", name, arch, r)

SlotsLoadInput ==
    \E name \in UpdNames, archive \in SlotArchives :
       \E r \in {load_input(fs, ws, name, archive)} :
          SlotsReturned("load_input", name, archive, r)

SlotsUnloadInput ==
    \E r \in {unload_input(fs, ws, C_a)} : SlotsReturned("unload_input", C_a, arch, r)

SlotsUpdateInput ==
    \E archive \in {NextVersion, BrokenArchive} :
       \E r \in {update_input(fs, ws, C_a, NewSpec, archive)} :
          SlotsReturned("update_input", C_a, archive, r)

SlotsDeleteInput ==
    \E r \in {delete_input(fs, ws, C_a)} : SlotsReturned("delete_input", C_a, arch, r)

SlotsLoadAllInputs ==
    \E names \in Orders(DOMAIN ws.meta.inputs) :
       \E r \in {load_all_inputs(fs, ws, names, <<LoadedArchive>>)} :
          SlotsReturned("load_all_inputs", <<>>, arch,
                        [ok |-> TRUE, err |-> "none", fs |-> r.fs, ws |-> r.ws])

\* from outside: fs::remove_dir of input/
RemoveInputDir ==
    \E r \in {remove_dir(fs, join(ws.directory, L_INPUT))} :
       /\ r.ok
       /\ fs' = r.fs
       /\ ret' = [op |-> "remove_dir", ok |-> TRUE, err |-> "none", name |-> <<>>]
       /\ UNCHANGED <<privileged, arch, ws, dest, thr, steps>>

NextSlots ==
    \/ SlotsAddInput
    \/ SlotsLoadInput
    \/ SlotsUnloadInput
    \/ SlotsUpdateInput
    \/ SlotsDeleteInput
    \/ SlotsLoadAllInputs
    \/ RemoveInputDir

SpecSlots == InitWs /\ [][NextSlots]_vars

(***************************************************************************)
(* SpecFileNames: the file names of a box are given to the two parsers     *)
(* that derive a bead name from them.                                      *)
(***************************************************************************)
S_txt == <<".", "t", "x", "t">>

\* whether s matches _\d{8}T[\d+-]+\.zip$ from its first character
StampTail(s) ==
    /\ Len(s) >= 15
    /\ s[1] = "_"
    /\ \A i \in 2..9 : IsDigit(s[i])
    /\ s[10] = "T"
    /\ \A i \in 11..(Len(s) - 4) : IsDigit(s[i]) \/ s[i] \in {"+", "-"}
    /\ ends_with(s, DOT_ZIP)

\* Box::parse_bead_name_from_path: group 1 of ^(.+?)_\d{8}T[\d+-]+\.zip$,
\* the shortest prefix the rest matches after; else the name without .zip
parse_bead_name_from_path(path) ==
    IF path_file_name(path) = None THEN [some |-> FALSE, name |-> <<>>]
    ELSE The({ IF \E n \in 1..Len(filename) : StampTail(SliceFrom(filename, n))
               THEN [some |-> TRUE,
                     name |-> SubSeq(filename, 1,
                                     CHOOSE n \in 1..Len(filename) :
                                         /\ StampTail(SliceFrom(filename, n))
                                         /\ \A m \in 1..(n - 1) : ~StampTail(SliceFrom(filename, m)))]
               ELSE IF ends_with(filename, DOT_ZIP)
                    THEN [some |-> TRUE, name |-> SubSeq(filename, 1, Len(filename) - 4)]
               ELSE [some |-> FALSE, name |-> <<>>] :
               filename \in {path_file_name(path)} })

StemChars == { "w", "x", "_" }

Stems == UNION { [1..n -> StemChars] : n \in 1..MaxNameLen }

\* what follows the stem: nothing, a timestamp, something shorter
Stamps == { <<>>, Underscore \o T_A, Underscore \o T_short }

FileNames == { stem \o stamp \o ext : stem \in Stems, stamp \in Stamps, ext \in {DOT_ZIP, S_txt} }

NotParsed == [op |-> "none"]

InitFileNames ==
    /\ privileged = FALSE
    /\ fs = RootFs
    /\ arch = NotParsed
    /\ dest \in { Append(BoxDir, n) : n \in FileNames }
    /\ ws = NoWorkspace
    /\ thr = NoThreads
    /\ ret = NotParsed
    /\ steps = 0

ArchiveParseName ==
    /\ arch' = [op |-> "Archive::parse_name_from_path", parsed |-> parse_name_from_path(dest)]
    /\ UNCHANGED <<privileged, fs, dest, ws, thr, ret, steps>>

BoxParseBeadName ==
    /\ ret' = [op |-> "Box::parse_bead_name_from_path", parsed |-> parse_bead_name_from_path(dest)]
    /\ UNCHANGED <<privileged, fs, arch, dest, ws, thr, steps>>

NextFileNames ==
    \/ ArchiveParseName
    \/ BoxParseBeadName

SpecFileNames == InitFileNames /\ [][NextFileNames]_vars

(***************************************************************************)
(* SpecOnce: one Archive whose cells (OnceCell) fill as meta() is called   *)
(* by two threads, while the archive file and its side-car are replaced,   *)
(* rewritten and removed.  A call of meta() is one step: OnceCell lets one *)
(* initialisation run at a time and the others wait for it.                *)
(***************************************************************************)
\* the container through self.zipfile.get_or_try_init: opened the first
\* time, the open ZipArchive afterwards
zipfile_get_or_try_init(f, a) ==
    IF a.zipfile.init
    THEN [ok |-> TRUE, err |-> "none", zip |-> a.zipfile.value, archive |-> a]
    ELSE The({ [ok |-> z.ok, err |-> z.err, zip |-> z.zip,
                archive |-> IF z.ok THEN [a EXCEPT !.zipfile = CellOf(z.zip)] ELSE a] :
               z \in {get_zipfile(f, a)} })

\* the closure of Archive::meta reading the container only
meta_from_container(f, a) ==
    The({ IF ~z.ok THEN [ok |-> FALSE, err |-> z.err, meta |-> NoMeta, archive |-> z.archive]
          ELSE IF "meta" \notin DOMAIN z.zip
               THEN [ok |-> FALSE, err |-> "ZipError", meta |-> NoMeta, archive |-> z.archive]
          ELSE IF ~parses_as_meta(z.zip.meta)
               THEN [ok |-> FALSE, err |-> "JsonError", meta |-> NoMeta, archive |-> z.archive]
          ELSE [ok |-> TRUE, err |-> "none", meta |-> z.zip.meta, archive |-> z.archive] :
          z \in {zipfile_get_or_try_init(f, a)} })

\* the closure of Archive::meta: the cached meta when it parses, else the
\* entry meta/bead of the container
meta_init(f, a) ==
    IF "meta" \in DOMAIN a.cache /\ parses_as_meta(a.cache["meta"])
    THEN [ok |-> TRUE, err |-> "none", meta |-> a.cache["meta"], archive |-> a]
    ELSE meta_from_container(f, a)

\* Archive::meta, self.meta.get_or_try_init: the value of the cell, else
\* the closure is run and its Ok value fills the cell
meta_get_or_try_init(f, a) ==
    IF a.meta.init
    THEN [ok |-> TRUE, err |-> "none", meta |-> a.meta.value, archive |-> a]
    ELSE The({ IF r.ok THEN [r EXCEPT !.archive.meta = CellOf(r.meta)] ELSE r :
               r \in {meta_init(f, a)} })

FrozenOther == frozen_meta(WorkspaceNamed(N_w, K_other), T_B)

FrozenCached == frozen_meta(WorkspaceNamed(N_w, K_kind), T_0)

\* a ZIP whose entries cannot be read any more
TornZip == [zip |-> TRUE, input_map |-> NoInputs]

\* archive files: two beads, one without meta/bead, one whose meta/bead is
\* no BeadMeta, and a file that is no ZIP
OnceZipFiles ==
    { [zip |-> TRUE, meta |-> FrozenW, manifest |-> NoCache, input_map |-> NoInputs],
      [zip |-> TRUE, meta |-> FrozenOther, manifest |-> NoCache, input_map |-> NoInputs],
      [zip |-> TRUE, meta |-> Garbage, manifest |-> NoCache, input_map |-> NoInputs],
      TornZip,
      EmptyFile }

OnceCacheFiles ==
    { [zip |-> FALSE, cache |-> ("meta" :> FrozenCached)],
      [zip |-> FALSE, cache |-> ("meta" :> Garbage)] }

CallerThreads == { 1, 2 }

\* first: the first Ok value meta() returned on this Archive; failed:
\* whether a call of meta() on it returned an error
InitOnce ==
    /\ privileged = FALSE
    /\ fs = BoxFs
    /\ arch = NoArchive
    /\ dest = <<>>
    /\ ws = NoWorkspace
    /\ thr = NoThreads
    /\ ret = [op |-> "new", ok |-> TRUE, err |-> "none", meta |-> NoMeta,
              first |-> NoMeta, failed |-> FALSE]
    /\ steps = 0

\* a step of the environment
OnceChanged(f, a) ==
    /\ fs' = f
    /\ arch' = a
    /\ ret' = [ret EXCEPT !.op = "put", !.ok = TRUE, !.err = "none", !.meta = NoMeta]
    /\ UNCHANGED <<privileged, dest, ws, thr, steps>>

\* the archive file is replaced by a new file (an open file is the old one)
ReplaceZip ==
    \E data \in OnceZipFiles :
       \E gone \in {remove_file(fs, ValidPath)} :
          \E r \in {file_create(gone.fs, ValidPath, data)} :
             r.ok /\ OnceChanged(r.fs, arch)

\* the archive file is rewritten in place: what an open ZipArchive reads
\* of it afterwards is the old entries, the new ones, or nothing
RewriteZip ==
    /\ is_file(fs, ValidPath)
    /\ \E data \in OnceZipFiles :
          \E r \in {file_create(fs, ValidPath, data)} :
             /\ r.ok
             /\ IF arch # NoArchive /\ arch.zipfile.init
                THEN \E seen \in {arch.zipfile.value, TornZip} \cup (IF data.zip THEN {data} ELSE {}) :
                        OnceChanged(r.fs, [arch EXCEPT !.zipfile = CellOf(seen)])
                ELSE OnceChanged(r.fs, arch)

RemoveZip ==
    \E r \in {remove_file(fs, ValidPath)} :
       r.ok /\ OnceChanged(r.fs, arch)

ReplaceCache ==
    \E data \in OnceCacheFiles :
       \E gone \in {remove_file(fs, with_extension(ValidPath, DOT_XMETA))} :
          \E r \in {file_create(gone.fs, with_extension(ValidPath, DOT_XMETA), data)} :
             r.ok /\ OnceChanged(r.fs, arch)

\* Archive::open; the cell of the container is empty
OnceOpen ==
    /\ arch = NoArchive
    /\ \E r \in {open(fs, ValidPath, C_b)} :
          /\ r.ok
          /\ fs' = fs
          /\ arch' = [path |-> r.archive.path, box_name |-> r.archive.box_name,
                      name |-> r.archive.name, cache |-> r.archive.cache,
                      meta |-> r.archive.meta, zipfile |-> EmptyCell]
          /\ ret' = [op |-> "open", ok |-> TRUE, err |-> "none", meta |-> NoMeta,
                     first |-> NoMeta, failed |-> FALSE]
          /\ UNCHANGED <<privileged, dest, ws, thr, steps>>

\* a thread calls meta() on the shared Archive
OnceMeta ==
    /\ arch # NoArchive
    /\ \E t \in CallerThreads :
          \E r \in {meta_get_or_try_init(fs, arch)} :
             /\ fs' = fs
             /\ arch' = r.archive
             /\ ret' = [op |-> "meta", ok |-> r.ok, err |-> r.err, meta |-> r.meta,
                        first |-> IF ret.first = NoMeta /\ r.ok THEN r.meta ELSE ret.first,
                        failed |-> ret.failed \/ ~r.ok]
             /\ dest' = <<t>>
             /\ UNCHANGED <<privileged, ws, thr, steps>>

OnceDrop ==
    /\ arch # NoArchive
    /\ fs' = fs
    /\ arch' = NoArchive
    /\ dest' = <<>>
    /\ ret' = [op |-> "drop", ok |-> TRUE, err |-> "none", meta |-> NoMeta,
               first |-> NoMeta, failed |-> FALSE]
    /\ UNCHANGED <<privileged, ws, thr, steps>>

NextOnce ==
    \/ ReplaceZip
    \/ RewriteZip
    \/ RemoveZip
    \/ ReplaceCache
    \/ OnceOpen
    \/ OnceMeta
    \/ OnceDrop

SpecOnce == InitOnce /\ [][NextOnce]_vars

(***************************************************************************)
(* SpecShared: one Archive shared by two threads (Arc<Archive>).  Each     *)
(* runs one operation on it and extracts into a directory of its own.  An  *)
(* operation is the sequence of its steps on what the threads share: the   *)
(* two OnceCells, which let one initialisation run while the others wait,  *)
(* and the Mutex around the ZipArchive, whose guard is dropped where the   *)
(* function that took it returns.  What an operation does while it holds   *)
(* the guard is one step.                                                  *)
(***************************************************************************)
\* the threads, each named as the directory it extracts into
SharedThreads == { <<"1">>, <<"2">> }

NoThread == <<>>

SharedOps ==
    { "meta", "validate", "extract_file", "extract_dir", "extract_all", "unpack_code_to",
      "unpack_to" }

SharedEntries == << DATA_PREFIX \o <<"f">>, CODE_PREFIX \o <<"m">> >>

\* the archive file: a bead, a ZIP whose meta/bead is no BeadMeta, no ZIP
SharedFiles ==
    { [zip |-> TRUE, meta |-> FrozenW, manifest |-> NoCache, input_map |-> NoInputs,
       entries |-> SharedEntries],
      [zip |-> TRUE, meta |-> Garbage, manifest |-> NoCache, input_map |-> NoInputs,
       entries |-> SharedEntries],
      EmptyFile }

\* the directory thread t extracts into
SharedDest(t) == <<C_d, t>>

SharedFs(data) ==
    [BoxFs EXCEPT !.dirs = [p \in {<<C_d>>} \cup { SharedDest(t) : t \in SharedThreads }
                              |-> MODE_RW] @@ @,
                  !.files = (ValidPath :> [mode |-> MODE_FILE, data |-> data, mtime |-> 0])]

\* let mut zip = self.get_zipfile()?; the steps under the guard; the guard
\* goes out of scope
guarded_twice(body) ==
    <<"zipfile", "lock", "lock", body, "unlock">>

guarded(body) ==
    <<"zipfile", "lock", body, "unlock">>

\* self.meta(): get_or_try_init, whose closure reads meta/bead under the
\* guard (the cache of this Archive holds no meta)
meta_steps ==
    <<"meta">> \o guarded("load_json_from_zip") \o <<"meta_set">>

\* the steps of an operation of Archive
Program(op) ==
    (CASE op = "meta" -> meta_steps
       [] op = "validate" -> meta_steps \o guarded("by_name")
       [] op = "unpack_to" -> guarded("unpack_code_to") \o meta_steps
       [] OTHER -> guarded(op))
    \o <<"return">>

\* what a call of meta() that finds the cell filled has left to do
RECURSIVE after_meta_set(_)
after_meta_set(todo) ==
    IF Head(todo) = "meta_set" THEN Tail(todo) ELSE after_meta_set(Tail(todo))

\* what the thread does under the guard: the entries the open ZipArchive
\* has are extracted into the thread's directory
under_guard(f, zip, body, dest_dir) ==
    CASE body = "extract_file" ->
             extract_file(f, zip_entries(zip), DATA_PREFIX \o <<"f">>, dest_dir)
      [] body = "extract_dir" -> extract_dir(f, zip_entries(zip), DATA_PREFIX, dest_dir)
      [] body = "extract_all" -> extract_all(f, zip_entries(zip), dest_dir)
      [] body = "unpack_code_to" -> unpack_code_to(f, zip_entries(zip), dest_dir)
      [] body = "load_json_from_zip" ->
             IF "meta" \notin DOMAIN zip THEN Err(f, "ZipError")
             ELSE IF ~parses_as_meta(zip.meta) THEN Err(f, "JsonError")
             ELSE Ok(f)
      [] body = "by_name" ->
             IF "meta" \notin DOMAIN zip \/ "manifest" \notin DOMAIN zip
             THEN Err(f, "InvalidArchive")
             ELSE Ok(f)

Idle == [op |-> "none", todo |-> <<>>, ok |-> TRUE, err |-> "none", overlapped |-> FALSE]

InitShared ==
    /\ privileged = FALSE
    /\ \E data \in SharedFiles :
          /\ fs = SharedFs(data)
          /\ \E r \in {open(SharedFs(data), ValidPath, C_b)} :
                arch = [path |-> r.archive.path, box_name |-> r.archive.box_name,
                        name |-> r.archive.name, cache |-> r.archive.cache,
                        meta |-> r.archive.meta, meta_by |-> NoThread,
                        zipfile |-> EmptyCell, opening |-> NoThread, opens |-> 0,
                        owner |-> NoThread]
    /\ dest = <<>>
    /\ ws = NoWorkspace
    /\ thr = [t \in SharedThreads |-> Idle]
    /\ ret = [op |-> "open", ok |-> TRUE, err |-> "none", thread |-> NoThread]
    /\ steps = 0

Running(t) ==
    thr[t].op # "none" /\ thr[t].todo # <<>>

At(t, step) ==
    Running(t) /\ Head(thr[t].todo) = step

\* the thread goes on to its next step
Goes(t, a, f) ==
    /\ thr' = [thr EXCEPT ![t].todo = Tail(@)]
    /\ arch' = a
    /\ fs' = f
    /\ UNCHANGED <<privileged, dest, ws, ret, steps>>

\* `?`: the function returns the error; what it holds is dropped
Fails(t, a, f, e) ==
    /\ thr' = [thr EXCEPT ![t].todo = <<"return">>, ![t].ok = FALSE, ![t].err = e]
    /\ arch' = [a EXCEPT !.owner = IF @ = t THEN NoThread ELSE @,
                         !.meta_by = IF @ = t THEN NoThread ELSE @]
    /\ fs' = f
    /\ UNCHANGED <<privileged, dest, ws, ret, steps>>

\* a thread calls an operation on the shared Archive
SharedCall(t) ==
    /\ thr[t].op = "none"
    /\ \E op \in SharedOps :
          thr' = [thr EXCEPT ![t] = [op |-> op, todo |-> Program(op), ok |-> TRUE,
                                     err |-> "none", overlapped |-> FALSE]]
    /\ UNCHANGED <<privileged, fs, arch, dest, ws, ret, steps>>

\* self.meta.get_or_try_init: the value when the cell is filled; else the
\* closure is run, by one thread at a time
MetaCell(t) ==
    /\ At(t, "meta")
    /\ IF arch.meta.init
       THEN /\ thr' = [thr EXCEPT ![t].todo = after_meta_set(@)]
            /\ UNCHANGED <<privileged, fs, arch, dest, ws, ret, steps>>
       ELSE /\ arch.meta_by = NoThread
            /\ Goes(t, [arch EXCEPT !.meta_by = t], fs)

\* self.zipfile.get_or_try_init: the Mutex when the cell is filled; else
\* the closure is run, by one thread at a time
ZipfileCell(t) ==
    /\ At(t, "zipfile")
    /\ IF arch.zipfile.init
       THEN Goes(t, arch, fs)
       ELSE /\ arch.opening = NoThread
            /\ thr' = [thr EXCEPT ![t].todo = <<"File::open">> \o Tail(@)]
            /\ arch' = [arch EXCEPT !.opening = t]
            /\ UNCHANGED <<privileged, fs, dest, ws, ret, steps>>

\* the closure of get_zipfile: File::open, ZipArchive::new, Mutex::new
ZipfileOpen(t) ==
    /\ At(t, "File::open")
    /\ \E z \in {get_zipfile(fs, arch)} :
          IF z.ok
          THEN Goes(t, [arch EXCEPT !.zipfile = CellOf(z.zip), !.opens = @ + 1,
                                    !.opening = NoThread], fs)
          ELSE Fails(t, [arch EXCEPT !.opening = NoThread], fs, z.err)

\* zip.lock(): the thread waits until no thread holds the guard
Lock(t) ==
    /\ At(t, "lock")
    /\ arch.owner = NoThread
    /\ thr' = [thr EXCEPT ![t].todo = Tail(@),
                          ![t].overlapped = \E u \in SharedThreads \ {t} : Running(u)]
    /\ arch' = [arch EXCEPT !.owner = t]
    /\ UNCHANGED <<privileged, fs, dest, ws, ret, steps>>

\* the thread reads through the ZipArchive
UnderGuard(t) ==
    /\ Running(t)
    /\ \E body \in {"extract_file", "extract_dir", "extract_all", "unpack_code_to",
                    "load_json_from_zip", "by_name"} :
          /\ At(t, body)
          /\ \E r \in {under_guard(fs, arch.zipfile.value, body, SharedDest(t))} :
                IF r.ok THEN Goes(t, arch, r.fs) ELSE Fails(t, arch, r.fs, r.err)

\* the guard is dropped
Unlock(t) ==
    /\ At(t, "unlock")
    /\ Goes(t, [arch EXCEPT !.owner = NoThread], fs)

\* the closure of meta() returned Ok: the cell is filled
MetaSet(t) ==
    /\ At(t, "meta_set")
    /\ Goes(t, [arch EXCEPT !.meta = CellOf(arch.zipfile.value.meta), !.meta_by = NoThread], fs)

SharedReturn(t) ==
    /\ At(t, "return")
    /\ thr' = [thr EXCEPT ![t].todo = <<>>]
    /\ ret' = [op |-> thr[t].op, ok |-> thr[t].ok, err |-> thr[t].err, thread |-> t]
    /\ UNCHANGED <<privileged, fs, arch, dest, ws, steps>>

\* a step of thread t inside its operation
ThreadStep(t) ==
    \/ MetaCell(t)
    \/ ZipfileCell(t)
    \/ ZipfileOpen(t)
    \/ Lock(t)
    \/ UnderGuard(t)
    \/ Unlock(t)
    \/ MetaSet(t)
    \/ SharedReturn(t)

NextShared ==
    \/ \E t \in SharedThreads : SharedCall(t)
    \/ \E t \in SharedThreads : MetaCell(t)
    \/ \E t \in SharedThreads : ZipfileCell(t)
    \/ \E t \in SharedThreads : ZipfileOpen(t)
    \/ \E t \in SharedThreads : Lock(t)
    \/ \E t \in SharedThreads : UnderGuard(t)
    \/ \E t \in SharedThreads : Unlock(t)
    \/ \E t \in SharedThreads : MetaSet(t)
    \/ \E t \in SharedThreads : SharedReturn(t)

SpecShared == InitShared /\ [][NextShared]_vars

\* every thread that can take a step is scheduled
SpecSharedFair ==
    SpecShared /\ \A t \in SharedThreads : WF_vars(ThreadStep(t))

(***************************************************************************)
(* Properties of extraction.                                               *)
(***************************************************************************)
\* C1: extract_dir, unpack_data_to and unpack_code_to never create or
\* overwrite a file outside the destination directory, whatever the entry
\* names of the archive (a `..` segment, a leading `/` after the prefix).
C1_ExtractDirStaysInside ==
    [][ret'.op \in {"extract_dir", "unpack_data_to", "unpack_code_to"}
          => OutsideUntouched(fs, fs', dest)]_vars

\* C2: extract_file and extract_all never create or overwrite a file outside
\* dest_dir, whether dest_dir exists or not and whatever it holds.
C2_ExtractFileAllStayInside ==
    [][ret'.op \in {"extract_file", "extract_all"}
          => OutsideUntouched(fs, fs', dest)]_vars

(***************************************************************************)
(* Properties of the workspace's inputs.                                   *)
(***************************************************************************)
AtOrBelow(x, d) ==
    x = d \/ StrictlyUnder(x, d)

\* C3: after a successful load_input(name, archive) the slot directory, every
\* file and every subdirectory below it, and input/ itself, have no write
\* permission for the owner.
C3_LoadedSlotReadOnly ==
    (ret.op = "load_input" /\ ret.ok) =>
        /\ ~OwnerWritable(fs.dirs[join(ws.directory, L_INPUT)])
        /\ \A x \in DOMAIN fs.dirs :
              AtOrBelow(x, input_path(ws, ret.name)) => ~OwnerWritable(fs.dirs[x])
        /\ \A x \in DOMAIN fs.files :
              AtOrBelow(x, input_path(ws, ret.name)) => ~OwnerWritable(fs.files[x].mode)

\* C4: for a non-privileged owner, unload_input(name) right after a successful
\* load_input(name, _) succeeds, the slot directory is gone, is_loaded(name)
\* is false and the input is still declared.
C4_UnloadRemovesSlot ==
    [][(/\ ~privileged
        /\ ret.op = "load_input" /\ ret.ok
        /\ ret'.op = "unload_input" /\ ret'.name = ret.name)
          => /\ ret'.ok
             /\ ~path_exists(fs', input_path(ws', ret'.name))
             /\ ~is_loaded(fs', ws', ret'.name)
             /\ has_input(ws', ret'.name)]_vars

\* C5: load_input on a declared slot that is already loaded returns Ok and
\* changes nothing on disk and nothing in the workspace's metadata, whichever
\* archive is passed.
C5_LoadIdempotent ==
    [][(/\ ret'.op = "load_input"
        /\ has_input(ws, ret'.name)
        /\ is_loaded(fs, ws, ret'.name))
          => /\ ret'.ok
             /\ fs' = fs
             /\ ws' = ws]_vars

\* C5's case: a slot that holds the file f of an earlier load has just been
\* loaded again, successfully, from an archive without any data
C5_Witness ==
    /\ ret.op = "load_input"
    /\ ret.ok
    /\ arch = << CODE_PREFIX \o <<"m">> >>
    /\ Append(input_path(ws, ret.name), C_f) \in DOMAIN fs.files

(***************************************************************************)
(* Properties of archives and of the box.                                  *)
(***************************************************************************)
\* C6: Archive::create of a workspace of kind K and valid name N at
\* <N>_<T>.zip, followed by Archive::open of that file, yields kind K, name N
\* and the metadata's freeze_time T.
C6_CreateOpenRoundTrip ==
    [][(/\ ret.op = "create" /\ ret.ok
        /\ ret'.op = "open" /\ ret'.path = ret.archive.path)
          => /\ ret'.ok
             /\ ret'.archive.name = ret.name
             /\ ret'.kind.ok /\ ret'.kind.kind = ret.kind
             /\ ret'.meta.ok /\ ret'.meta.meta.freeze_time = ret.time]_vars

\* C7: Box::store fails with AlreadyExists when <name>_<freeze_time>.zip is
\* in the box already, and then no file of the box changes.
C7_StoreKeepsExisting ==
    [][(/\ ret'.op = "store"
        /\ path_exists(fs, join(BoxDir, archive_name(ret'.name, ret'.time))))
          => /\ ~ret'.ok
             /\ ret'.err = "AlreadyExists"
             /\ fs' = fs]_vars

\* C7's case: a store was refused and the archive frozen there earlier is
\* still a ZIP
C7_Witness ==
    /\ ret.op = "store"
    /\ ret.err = "AlreadyExists"
    /\ is_file(fs, join(BoxDir, archive_name(ret.name, ret.time)))
    /\ FileAt(fs, join(BoxDir, archive_name(ret.name, ret.time))).zip

\* C9: find_by_name(N) right after a successful store of N at T into a box
\* without any <N>_*.zip returns exactly one archive, of path
\* <location>/<N>_<T>.zip and of derived name N.
C9_StoredIsFoundByName ==
    [][(/\ ret.op = "store" /\ ret.ok /\ ret.fresh
        /\ ret'.op = "find_by_name" /\ ret'.name = ret.name)
          => /\ Len(ret'.found) = 1
             /\ ret'.found[1].path = join(BoxDir, archive_name(ret.name, ret.time))
             /\ ret'.found[1].name = ret.name]_vars

\* an archive whose metadata holds a freeze_time that parses
Readable(f, a) ==
    /\ meta(f, a).ok
    /\ meta(f, a).meta.freeze_time # None
    /\ parse_timestamp(meta(f, a).meta.freeze_time).ok

DeclaredTime(f, a) ==
    parse_timestamp(meta(f, a).meta.freeze_time)

NotBefore(t, u) ==
    t.secs > u.secs \/ (t.secs = u.secs /\ t.micros >= u.micros)

\* C10: find_latest_by_name returns None exactly when nothing matches the
\* name; otherwise it returns a match, no match with a readable freeze_time
\* is later than it to the microsecond, and it is readable when a match is.
C10_LatestIsMaximal ==
    ret.op = "find_latest_by_name" =>
        \A matches \in {find_by_name(fs, TheBox, ret.name)} :
           /\ ret.found.some <=> matches # <<>>
           /\ ret.found.some =>
                 /\ \E i \in 1..Len(matches) : matches[i] = ret.found.archive
                 /\ \A i \in 1..Len(matches) :
                       Readable(fs, matches[i]) =>
                          /\ Readable(fs, ret.found.archive)
                          /\ NotBefore(DeclaredTime(fs, ret.found.archive),
                                       DeclaredTime(fs, matches[i]))

\* C8: when two threads have stored the same name at the same freeze_time,
\* exactly one of them succeeded, the other one failed with AlreadyExists,
\* and no File::create hit a file that was there already.
C8_OneStoreWins ==
    \A t, u \in Threads :
       (/\ t # u
        /\ thr[t].pc = "done" /\ thr[u].pc = "done"
        /\ thr[t].name = thr[u].name /\ thr[t].time = thr[u].time)
          => /\ thr[t].ok # thr[u].ok
             /\ ~thr[t].ok => thr[t].err = "AlreadyExists"
             /\ ~thr[t].truncated

(***************************************************************************)
(* Properties of the lookups by time.                                      *)
(***************************************************************************)
PathOfW(time) ==
    join(BoxDir, archive_name(N_w, time))

Before(t, u) ==
    ~NotBefore(t, u)

\* archives of w frozen at t1 < t2 < t3 were written in the order t3, t1, t2
WrittenOutOfOrder(t1, t2, t3) ==
    /\ \A t \in {t1, t2, t3} : is_file(fs, PathOfW(t))
    /\ Before(parse_timestamp(t1), parse_timestamp(t2))
    /\ Before(parse_timestamp(t2), parse_timestamp(t3))
    /\ modified(fs, PathOfW(t3)).time < modified(fs, PathOfW(t1)).time
    /\ modified(fs, PathOfW(t1)).time < modified(fs, PathOfW(t2)).time

\* C11: find_newest_by_name returns a name match of greatest modification
\* time; with three archives of freeze_times t1 < t2 < t3 written in the order
\* t3, t1, t2, find_latest_by_name returns the one of t3 and
\* find_newest_by_name the one of t2.
C11_NewestAndLatest ==
    /\ ret.op = "find_newest_by_name" =>
          \A matches \in {find_by_name(fs, TheBox, ret.name)} :
             /\ ret.found.some <=> matches # <<>>
             /\ ret.found.some =>
                   /\ \E i \in 1..Len(matches) : matches[i] = ret.found.archive
                   /\ \A i \in 1..Len(matches) :
                         modified(fs, ret.found.archive.path).time
                            >= modified(fs, matches[i].path).time
    /\ \A t1, t2, t3 \in NewestTimes :
          WrittenOutOfOrder(t1, t2, t3) =>
             /\ ret.op = "find_newest_by_name" => ret.found.archive.path = PathOfW(t2)
             /\ ret.op = "find_latest_by_name" => ret.found.archive.path = PathOfW(t3)

PathsOf(beads) ==
    { beads[i].path : i \in 1..Len(beads) }

\* the result r of a lookup by cutoff on the filesystem f: a failure when the
\* cutoff cannot be parsed, otherwise the matches of a readable freeze_time
\* are in it exactly when that time is on the side of the cutoff asked for
SideOfCutoff(f, r) ==
    IF ~parse_timestamp(r.cutoff).ok THEN ~r.ok
    ELSE /\ r.ok
         /\ PathsOf(r.beads) \subseteq PathsOf(find_by_name(f, TheBox, r.name))
         /\ \A matches \in {find_by_name(f, TheBox, r.name)} :
               \A i \in 1..Len(matches) :
                  Readable(f, matches[i]) =>
                     (matches[i].path \in PathsOf(r.beads)
                        <=> (time_le(DeclaredTime(f, matches[i]), parse_timestamp(r.cutoff))
                               <=> r.op = "find_by_name_before"))

ByCutoff == { "find_by_name_before", "find_by_name_after" }

\* C12: find_by_name_before returns exactly the name matches of freeze_time
\* <= cutoff and find_by_name_after exactly those of freeze_time > cutoff, so
\* the two results of one name and cutoff on an unchanged box hold every name
\* match exactly once; a cutoff that does not parse makes both fail.
C12_CutoffPartitions ==
    [][/\ ret'.op \in ByCutoff => SideOfCutoff(fs', ret')
       /\ ( /\ ret.op \in ByCutoff
            /\ ret'.op \in ByCutoff
            /\ ret.op # ret'.op
            /\ ret.name = ret'.name
            /\ ret.cutoff = ret'.cutoff
            /\ ret.ok /\ ret'.ok
            /\ fs' = fs
            /\ time_le(ret.now, ret'.now) )
          => \A q \in PathsOf(find_by_name(fs, TheBox, ret.name)) :
                (q \in PathsOf(ret.beads)) # (q \in PathsOf(ret'.beads))]_vars

\* the archive a satisfies one of the criteria of the reference
SatisfiesRef(f, a, reference) ==
    \/ a.name = reference
    \/ kind(f, a).ok /\ kind(f, a).kind = reference
    \/ starts_with(content_id(a), reference)

\* the archive a is a match of the reference: its file is <reference>_*.zip,
\* or its kind is the reference, or its content id starts with it
MatchesRef(f, a, reference) ==
    \/ starts_with(a.path[Len(a.path)], reference \o Underscore)
    \/ kind(f, a).ok /\ kind(f, a).kind = reference
    \/ starts_with(content_id(a), reference)

RECURSIVE CountPath(_, _)
CountPath(beads, p) ==
    IF beads = <<>> THEN 0
    ELSE (IF Head(beads).path = p THEN 1 ELSE 0) + CountPath(Tail(beads), p)

\* C14: all_beads returns Ok whatever files are in the box directory, with one
\* Archive for every *.zip file whose name parses and none for any other
\* entry.
C14_AllBeadsSkipsStrays ==
    ret.op = "all_beads" =>
        /\ ret.ok
        /\ \A n \in EntriesOf(fs, BoxDir) :
              CountPath(ret.beads, join(BoxDir, n))
                 = IF ends_with(n, DOT_ZIP) /\ parse_name_from_path(join(BoxDir, n)).ok
                   THEN 1 ELSE 0
        /\ PathsOf(ret.beads) \subseteq { join(BoxDir, n) : n \in EntriesOf(fs, BoxDir) }

\* the listing returned an archive although a stray .zip file sorts before it
C14_Witness ==
    /\ ret.op = "all_beads"
    /\ ret.beads # <<>>
    /\ \E n \in Strays :
          /\ ends_with(n, DOT_ZIP)
          /\ ~parse_name_from_path(join(BoxDir, n)).ok
          /\ n \in EntriesOf(fs, BoxDir)
          /\ StrLess(n, ret.beads[1].path[2])

\* the scan of the directory of the box fails: the pattern of the query is
\* malformed, or the directory may not be read
ScanFailed(f, box, q, arg) ==
    \/ box_scan_fails(box, q, arg)
    \/ ~MayRead(f.dirs[box.location])

\* C15: a query of a Box or of a UnionBox returns an error whenever the scan
\* of the directory of the box, or of a member box, fails.
C15_FailedScanIsAnError ==
    ret.op \in {"box_query", "union_query"} =>
        ((\E i \in 1..Len(ret.boxes) : ScanFailed(fs, ret.boxes[i], ret.q, ret.arg))
            => ~ret.ok)

\* the results of the member boxes, one after the other
RECURSIVE Concatenated(_, _, _, _)
Concatenated(f, boxes, q, arg) ==
    IF boxes = <<>> THEN <<>>
    ELSE box_query(f, Head(boxes), q, arg).beads \o Concatenated(f, Tail(boxes), q, arg)

\* beads without every archive whose path an earlier one has
FirstOfEachPath(beads) ==
    SelectSeq([i \in 1..Len(beads) |->
                 [bead |-> beads[i],
                  first |-> \A j \in 1..(i - 1) : beads[j].path # beads[i].path]],
              LAMBDA x : x.first)

\* C16: a query of a UnionBox returns the results of the member boxes one
\* after the other (find_by_ref: without every archive whose path came
\* before), and find_latest returns a name match of the members that no
\* match with a readable freeze_time is later than.
C16_UnionConcatenates ==
    /\ ret.op = "union_query" =>
          /\ ret.ok
          /\ \A all \in {Concatenated(fs, ret.boxes, ret.q, ret.arg)} :
                IF ret.q = "find_by_ref"
                THEN \A firsts \in {FirstOfEachPath(all)} :
                        ret.beads = [i \in 1..Len(firsts) |-> firsts[i].bead]
                ELSE ret.beads = all
    /\ ret.op = "find_latest" =>
          \A matches \in {Concatenated(fs, ret.boxes, "find_by_name", ret.name)} :
             /\ ret.found.some <=> matches # <<>>
             /\ ret.found.some =>
                   /\ \E i \in 1..Len(matches) : matches[i] = ret.found.archive
                   /\ \A i \in 1..Len(matches) :
                         Readable(fs, matches[i]) =>
                            /\ Readable(fs, ret.found.archive)
                            /\ NotBefore(DeclaredTime(fs, ret.found.archive),
                                         DeclaredTime(fs, matches[i]))

(***************************************************************************)
(* Properties of the workspace directory.                                  *)
(***************************************************************************)
MetaFileOf(f, directory) ==
    f.files[Resolve(f, join(directory, L_BEAD_META), TRUE).path].data

\* the directory holds a fresh workspace of kind k
FreshLayout(f, directory, k) ==
    /\ is_dir(f, join(directory, L_INPUT))
    /\ is_dir(f, join(directory, L_OUTPUT))
    /\ is_dir(f, join(directory, L_TEMP))
    /\ is_file(f, join(directory, L_BEAD_META))
    /\ MetaFileOf(f, directory).kind = k
    /\ MetaFileOf(f, directory).inputs = NoInputs
    /\ MetaFileOf(f, directory).freeze_time = None
    /\ MetaFileOf(f, directory).freeze_name = None
    /\ ~OwnerWritable(f.dirs[Resolve(f, join(directory, L_INPUT), TRUE).path])

\* C17: create fails with AlreadyExists on a directory that exists and then
\* changes nothing; when it succeeds the directory holds input/, output/,
\* temp/ and the metadata file of the kind given, without inputs, freeze_time
\* and freeze_name, and input/ is read-only.
C17_CreateLaysOutOrRefuses ==
    [][ret'.op = "create" =>
         /\ path_exists(fs, ret'.directory) =>
               ~ret'.ok /\ ret'.err = "AlreadyExists" /\ fs' = fs
         /\ ret'.ok =>
               /\ FreshLayout(fs', ret'.directory, ret'.kind)
               /\ ws'.directory = ret'.directory
               /\ ws'.meta = MetaFileOf(fs', ret'.directory)]_vars

\* a workspace was created below a parent that did not exist, while /p, a
\* directory from before, holds none
C17_Witness ==
    /\ ret.op = "create"
    /\ ret.ok
    /\ ret.directory = <<C_q, C_w>>
    /\ FreshLayout(fs, <<C_q, C_w>>, ret.kind)
    /\ ~workspace_is_valid(fs, <<C_p>>)

\* C18 (as the code has it): open fails with InvalidWorkspace exactly when
\* the directory lacks input/, output/, temp/ or the metadata file; with them
\* it returns a Workspace exactly when the metadata file and, if there is
\* one, the input map can be read, and fails with the error of the read
\* otherwise.
C18_OpenChecksLayoutThenLoads ==
    ret.op = "open" =>
        /\ (~ret.ok /\ ret.err = "InvalidWorkspace")
              <=> ~( /\ is_dir(fs, join(ret.directory, L_INPUT))
                     /\ is_dir(fs, join(ret.directory, L_OUTPUT))
                     /\ is_dir(fs, join(ret.directory, L_TEMP))
                     /\ is_file(fs, join(ret.directory, L_BEAD_META)) )
        /\ ret.ok <=>
              /\ workspace_is_valid(fs, ret.directory)
              /\ "kind" \in DOMAIN MetaFileOf(fs, ret.directory)
              /\ path_exists(fs, join(ret.directory, L_INPUT_MAP)) =>
                    /\ is_file(fs, join(ret.directory, L_INPUT_MAP))
                    /\ "input_map" \in DOMAIN FileAt(fs, join(ret.directory, L_INPUT_MAP))
        /\ ret.ok => ws.directory = ret.directory /\ ws.meta = MetaFileOf(fs, ret.directory)
        /\ ~ret.ok => ret.err \in {"InvalidWorkspace", "IoError", "JsonError"}

\* an open failed on a directory of the right layout
C18_Witness ==
    /\ ret.op = "open"
    /\ ~ret.ok
    /\ workspace_is_valid(fs, ret.directory)

\* C18: open returns a Workspace exactly when the directory holds input/,
\* output/, temp/ and the metadata file, and fails with InvalidWorkspace in
\* every other case.
C18_OpenIffLayout ==
    ret.op = "open" =>
        /\ ret.ok <=> /\ is_dir(fs, join(ret.directory, L_INPUT))
                      /\ is_dir(fs, join(ret.directory, L_OUTPUT))
                      /\ is_dir(fs, join(ret.directory, L_TEMP))
                      /\ is_file(fs, join(ret.directory, L_BEAD_META))
        /\ ~ret.ok => ret.err = "InvalidWorkspace"

(***************************************************************************)
(* Properties of the declared inputs.                                      *)
(***************************************************************************)
\* no InputName: no BeadName, or with a separator of the other convention
InvalidName(name) ==
    ~BeadName_is_valid(name) \/ contains(name, <<"\\">>)

MapFileOf(f, directory) ==
    IF path_exists(f, join(directory, L_INPUT_MAP))
    THEN FileAt(f, join(directory, L_INPUT_MAP)).input_map
    ELSE NoInputs

\* C19: add_input fails with InvalidInput on an invalid name and with
\* AlreadyExists on a declared one, and then the declared inputs are as
\* before, in memory and in the metadata file; otherwise the spec is recorded
\* under the name, in memory and in the metadata file.
C19_AddInputValidates ==
    [][ret'.op = "add_input" =>
         IF InvalidName(ret'.name)
         THEN ~ret'.ok /\ ret'.err = "InvalidInput" /\ ws' = ws /\ fs' = fs
         ELSE IF has_input(ws, ret'.name)
         THEN ~ret'.ok /\ ret'.err = "AlreadyExists" /\ ws' = ws /\ fs' = fs
         ELSE /\ ret'.ok
              /\ ws'.meta.inputs = (ret'.name :> ret'.spec) @@ ws.meta.inputs
              /\ MetaFileOf(fs', ws'.directory) = ws'.meta]_vars

\* C20: delete_input fails with InvalidInput on an undeclared name and changes
\* nothing; on a declared one, loaded or not, it succeeds, and then the input
\* is not declared, not loaded, input/<name>/ is gone and the name has no
\* bead name, in memory and on disk.
C20_DeleteInputForgets ==
    [][ret'.op = "delete_input" =>
         IF ~has_input(ws, ret'.name)
         THEN ~ret'.ok /\ ret'.err = "InvalidInput" /\ ws' = ws /\ fs' = fs
         ELSE /\ ret'.ok
              /\ ~has_input(ws', ret'.name)
              /\ ~is_loaded(fs', ws', ret'.name)
              /\ ~path_exists(fs', input_path(ws', ret'.name))
              /\ ret'.name \notin DOMAIN ws'.input_map
              /\ ret'.name \notin DOMAIN MetaFileOf(fs', ws'.directory).inputs
              /\ ret'.name \notin DOMAIN MapFileOf(fs', ws'.directory)]_vars

(***************************************************************************)
(* Properties of updating, loading all inputs and deleting the workspace.  *)
(***************************************************************************)
\* the files in and below the slot of the input
SlotFiles(f, w, name) ==
    { x \in DOMAIN f.files : StrictlyUnder(x, input_path(w, name)) }

\* where the slot holds the data/ tree of the archive
DataTree(w, name, archive) ==
    { join(input_path(w, name), SliceFrom(archive[i], Len(DATA_PREFIX))) :
        i \in { j \in DOMAIN archive : starts_with(archive[j], DATA_PREFIX) } }

\* C21: update_input with an archive that extracts fails with InvalidInput on
\* an undeclared name and changes nothing; on a declared input, loaded or not,
\* it succeeds, and then the spec of the input is the new one in memory and in
\* the metadata file, the slot is loaded and the files in it are exactly the
\* data/ tree of the archive.
C21_UpdateInputReplaces ==
    [][(ret'.op = "update_input" /\ arch' # BrokenArchive) =>
         IF ~has_input(ws, ret'.name)
         THEN ~ret'.ok /\ ret'.err = "InvalidInput" /\ ws' = ws /\ fs' = fs
         ELSE /\ ret'.ok
              /\ ws'.meta.inputs[ret'.name] = ret'.spec
              /\ MetaFileOf(fs', ws'.directory).inputs[ret'.name] = ret'.spec
              /\ is_loaded(fs', ws', ret'.name)
              /\ SlotFiles(fs', ws', ret'.name) = DataTree(ws', ret'.name, arch')]_vars

\* C22: when update_input fails loading, after the spec was overwritten and
\* saved, the new spec is recorded for the input in memory and in the metadata
\* file, and no data is there for it: input/<name>/ does not exist and the
\* input is not loaded.
C22_FailedUpdateLeavesNoData ==
    [][(/\ ret'.op = "update_input"
        /\ ~ret'.ok
        /\ has_input(ws, ret'.name)
        /\ ws'.meta.inputs[ret'.name] = ret'.spec)
          => /\ MetaFileOf(fs', ws'.directory).inputs[ret'.name] = ret'.spec
             /\ ~path_exists(fs', input_path(ws', ret'.name))
             /\ ~is_loaded(fs', ws', ret'.name)]_vars

\* C23: load_all_inputs returns one outcome for each declared input; the i-th
\* input is loaded from the i-th archive, and where there is no i-th archive
\* the i-th outcome is a failure and the input, unloaded before, stays
\* unloaded.
C23_LoadAllPairsByPosition ==
    [][ret'.op = "load_all_inputs" =>
         /\ Len(ret'.results) = Cardinality(DOMAIN ws.meta.inputs)
         /\ \A i \in DOMAIN ret'.results :
               IF i <= Len(ret'.archives)
               THEN (ret'.results[i].ok /\ ~is_loaded(fs, ws, ret'.names[i]))
                       => SlotFiles(fs', ws', ret'.names[i])
                             = DataTree(ws', ret'.names[i], ret'.archives[i])
               ELSE /\ ~ret'.results[i].ok
                    /\ ~is_loaded(fs, ws, ret'.names[i])
                          => ~is_loaded(fs', ws', ret'.names[i])]_vars

\* C24: for a non-privileged owner, delete succeeds whatever inputs are
\* loaded, and the directory of the workspace is gone with all below it.
C24_DeleteRemovesTree ==
    [][(ret'.op = "delete" /\ ~privileged)
          => /\ ret'.ok
             /\ ~path_exists(fs', ws.directory)
             /\ Below(fs', ws.directory) = {}]_vars

SoundContainer(f, path) ==
    /\ is_file(f, path)
    /\ FileAt(f, path).zip
    /\ {"meta", "manifest"} \subseteq DOMAIN FileAt(f, path)
    /\ parses_as_meta(FileAt(f, path).meta)

\* C26: validate succeeds exactly when the container holds meta/bead and
\* meta/manifest and meta/bead is a BeadMeta, whatever the cache file holds.
C26_ValidateChecksContainer ==
    [][ret'.op = "validate" => (ret'.ok <=> SoundContainer(fs, arch.path))]_vars

(***************************************************************************)
(* Properties of the metadata of a live workspace.                         *)
(***************************************************************************)
\* C27: the metadata of the live workspace never has a freeze_time or a
\* freeze_name, whatever was done to the workspace, and the metadata of an
\* archive Archive::create has made has both, in the handle and in the file.
C27_LiveMetaIsNotFrozen ==
    [][/\ ws'.meta.freeze_time = None
       /\ ws'.meta.freeze_name = None
       /\ (ret'.op = "archive_create" /\ ret'.ok)
             => /\ meta(fs', arch').ok
                /\ meta(fs', arch').meta.freeze_time # None
                /\ meta(fs', arch').meta.freeze_name # None
                /\ FileAt(fs', arch'.path).meta.freeze_time # None
                /\ FileAt(fs', arch'.path).meta.freeze_name # None]_vars

\* Workspace::open of the directory gives the kind, the declared inputs and
\* the bead names of the inputs that the workspace has in memory
SameAsOpened(f, w) ==
    \E r \in {workspace_open(f, w.directory)} :
       /\ r.ok
       /\ r.ws.meta.kind = w.meta.kind
       /\ r.ws.meta.inputs = w.meta.inputs
       /\ r.ws.input_map = w.input_map

\* C30: a successful add_input, delete_input, update_input,
\* set_input_bead_name or unpack_to on a workspace that Workspace::open would
\* give back as it is in memory leaves a workspace of which that is true.
C30_OpenGivesBackTheWorkspace ==
    [][(/\ ret'.op \in {"add_input", "delete_input", "update_input",
                         "set_input_bead_name", "unpack_to"}
        /\ ret'.ok
        /\ SameAsOpened(fs, ws))
          => SameAsOpened(fs', ws')]_vars

(***************************************************************************)
(* Properties of input names.                                              *)
(***************************************************************************)
\* the segments of a name, split at the separators of both conventions
Segments(name) ==
    SplitAcc([i \in DOMAIN name |-> IF name[i] = "\\" THEN "/" ELSE name[i]], <<>>, <<>>)

\* C28: InputName::new accepts a name that follows BeadName's rules, has no
\* `/` and no `\` and no `..` segment, and rejects every other name with
\* InvalidInput.
C28_InputNameRules ==
    [][ret'.op = "InputName::new" =>
         IF /\ BeadName_is_valid(ret'.arg)
            /\ ~contains(ret'.arg, <<"/">>)
            /\ ~contains(ret'.arg, <<"\\">>)
            /\ \A i \in DOMAIN Segments(ret'.arg) : Segments(ret'.arg)[i] # DotDot
         THEN ret'.ok /\ ret'.name = ret'.arg
         ELSE ~ret'.ok /\ ret'.err = "InvalidInput"]_vars

(***************************************************************************)
(* Properties of the Input value.                                          *)
(***************************************************************************)
\* C29: whatever was called on the slot, through an Input, through its clone
\* or through the workspace, the loaded flag of every Input tells whether the
\* slot directory is on disk; and load (unload) finds nothing to do exactly
\* when the directory is (is not) on disk.
C29_LoadedIsOnDisk ==
    [][/\ \A h \in Holders : arch'[h].loaded = path_exists(fs', arch'[h].path)
       /\ (ret'.op = "Input::load" /\ path_exists(fs, arch[ret'.holder].path))
             => ret'.ok /\ fs' = fs
       /\ (ret'.op = "Input::unload" /\ ~path_exists(fs, arch[ret'.holder].path))
             => ret'.ok /\ fs' = fs]_vars

(***************************************************************************)
(* Properties of the file of the input map.                                *)
(***************************************************************************)
\* .bead-meta/input.map is there exactly when the map is not empty, and then
\* holds the map
MapPersisted(f, w) ==
    /\ path_exists(f, join(w.directory, L_INPUT_MAP)) <=> w.input_map # NoInputs
    /\ path_exists(f, join(w.directory, L_INPUT_MAP))
          => FileAt(f, join(w.directory, L_INPUT_MAP)).input_map = w.input_map

\* C35: after create and after every successful set_input_bead_name or
\* delete_input the file of the input map is there exactly when the map is
\* not empty, holding the map; set_input_bead_name on an undeclared input
\* fails with InvalidInput and changes neither the map nor the file.
C35_MapFileFollowsMap ==
    [][/\ ret.op = "create" => MapPersisted(fs, ws)
       /\ (ret'.op \in {"set_input_bead_name", "delete_input"} /\ ret'.ok)
             => MapPersisted(fs', ws')
       /\ (ret'.op = "set_input_bead_name" /\ ~has_input(ws, ret'.name))
             => ~ret'.ok /\ ret'.err = "InvalidInput" /\ ws' = ws /\ fs' = fs]_vars

\* C35's case: an input has just been given a bead name, and the file holds
\* the map
C35_Witness ==
    /\ ret.op = "set_input_bead_name"
    /\ ret.ok
    /\ ws.input_map # NoInputs
    /\ path_exists(fs, join(ws.directory, L_INPUT_MAP))

(***************************************************************************)
(* Properties of the names of the archives of a box.                       *)
(***************************************************************************)
\* the paths of the archives of the box whose derived name is the name
PathsNamed(f, box, name) ==
    { all_beads(f, box)[i].path :
        i \in { j \in DOMAIN all_beads(f, box) : all_beads(f, box)[j].name = name } }

\* C37: find_by_name(name) returns the archives of all_beads() whose derived
\* name is name: each archive returned has that name, and none of that name
\* is left out.
C37_FindByNameIsAllBeadsByName ==
    [][ret'.op = "find_by_name" =>
         /\ \A i \in DOMAIN ret'.found : ret'.found[i].name = ret'.name
         /\ PathsOf(ret'.found) = PathsNamed(fs, TheBox, ret'.name)]_vars

(***************************************************************************)
(* Properties of what Box::store leaves in the box.                        *)
(***************************************************************************)
\* the archive at the path, opened through the box, validates, has the kind,
\* and has the freeze time: that of its metadata, whatever the time is now
FrozenBead(f, path, k, time) ==
    \E r \in {open(f, path, TheBox.name)} :
       /\ r.ok
       /\ validate(f, r.archive).ok
       /\ kind(f, r.archive) = [ok |-> TRUE, kind |-> k]
       /\ \A now \in Nows :
             freeze_time(f, r.archive, now)
                = [secs |-> parse_timestamp(time).secs, micros |-> parse_timestamp(time).micros]

\* C40: the archive a successful Box::store puts into the box is a frozen
\* bead: opened through the box it validates, its kind is that of the
\* workspace and its freeze time is the one given to store.
C40_StoredIsFrozenBead ==
    [][(ret'.op = "store" /\ ret'.ok)
          => FrozenBead(fs', ret'.path, K_kind, ret'.time)]_vars

(***************************************************************************)
(* Properties of the slots and of the bead names of the inputs.            *)
(***************************************************************************)
\* C39: whatever was done to the workspace, an input whose slot is loaded is
\* declared, and an input that has a bead name is declared.
C39_SlotsAndNamesAreDeclared ==
    \A name \in {C_a, C_b} :
       /\ is_loaded(fs, ws, name) => has_input(ws, name)
       /\ name \in DOMAIN ws.input_map => has_input(ws, name)

(***************************************************************************)
(* Properties of the slots under input/.                                   *)
(***************************************************************************)
\* C31: load_input of a declared input succeeds when input/ is not there,
\* and then input/<name>/ is there; and it succeeds from an archive without
\* any entry under data/, and then the slot is loaded and empty.
C31_LoadRecreatesAndTakesNoData ==
    [][(ret'.op = "load_input" /\ has_input(ws, ret'.name)) =>
         /\ (~path_exists(fs, join(ws.directory, L_INPUT)) /\ arch' # BrokenArchive)
               => ret'.ok /\ path_exists(fs', input_path(ws', ret'.name))
         /\ (/\ path_exists(fs, join(ws.directory, L_INPUT))
             /\ ~is_loaded(fs, ws, ret'.name)
             /\ arch' = NoDataArchive)
               => /\ ret'.ok
                  /\ is_loaded(fs', ws', ret'.name)
                  /\ Below(fs', input_path(ws', ret'.name)) = {}]_vars

\* the directory is there and its owner may write into it
Writable(f, p) ==
    is_dir(f, p) /\ OwnerWritable(f.dirs[Resolve(f, p, TRUE).path])

\* C32: after create and after every return of add_input, load_input,
\* unload_input, update_input, delete_input and load_all_inputs, input/ is
\* read-only and so is every slot directory under it.
C32_InputDirsStayReadOnly ==
    ret.op \in {"create", "add_input", "load_input", "unload_input", "update_input",
                "delete_input", "load_all_inputs"}
       => /\ ~Writable(fs, join(ws.directory, L_INPUT))
          /\ \A name \in UpdNames : ~Writable(fs, input_path(ws, name))

\* C36: a load_input that returns an error leaves the slot not loaded.
C36_FailedLoadLeavesNoSlot ==
    [][(ret'.op = "load_input" /\ ~ret'.ok) => ~is_loaded(fs', ws', ret'.name)]_vars


\* C38: for every file name ending in .zip, once both parsers have been
\* applied to it, Archive::parse_name_from_path and
\* Box::parse_bead_name_from_path have derived the same bead name.
C38_ParsersAgree ==
    (/\ arch.op = "Archive::parse_name_from_path"
     /\ ret.op = "Box::parse_bead_name_from_path"
     /\ ends_with(path_file_name(dest), DOT_ZIP))
    => /\ arch.parsed.ok
       /\ ret.parsed.some
       /\ arch.parsed.name = ret.parsed.name

\* C33: a call of meta() on an Archive on which an earlier call returned
\* Ok(m) returns Ok(m) again, whatever became of the archive file and of its
\* side-car since and whichever thread calls; the first value is the cached
\* meta when that parses, and else, when no container was opened before,
\* the entry meta/bead of the archive file as it is now, even after calls
\* that failed; a call that fails leaves the cell empty.
C33_MetaIsInitialisedOnce ==
    [][ret'.op = "meta" =>
           /\ ret.first # NoMeta => (ret'.ok /\ ret'.meta = ret.first)
           /\ (ret.first = NoMeta /\ "meta" \in DOMAIN arch.cache
               /\ parses_as_meta(arch.cache["meta"]))
              => (ret'.ok /\ ret'.meta = arch.cache["meta"])
           /\ (/\ ret.first = NoMeta
               /\ ~("meta" \in DOMAIN arch.cache /\ parses_as_meta(arch.cache["meta"]))
               /\ ~arch.zipfile.init
               /\ get_zipfile(fs, arch).ok
               /\ "meta" \in DOMAIN FileAt(fs, arch.path)
               /\ parses_as_meta(FileAt(fs, arch.path).meta))
              => (ret'.ok /\ ret'.meta = FileAt(fs, arch.path).meta)
           /\ ~ret'.ok => ~arch'.meta.init]_vars

\* a thread got Ok(m) from meta() after the archive file was replaced by
\* another bead, on an Archive where the other thread's call had failed
C33_Witness ==
    /\ ret.op = "meta"
    /\ ret.ok
    /\ ret.failed
    /\ dest = <<2>>
    /\ ret.meta = FrozenW
    /\ is_file(fs, ValidPath)
    /\ FileAt(fs, ValidPath) = [zip |-> TRUE, meta |-> FrozenOther, manifest |-> NoCache,
                                input_map |-> NoInputs]

\* what operation op of thread t returns and writes when no other thread
\* uses the Archive
Alone(f, a, op, t) ==
    CASE op = "meta" -> [ok |-> meta(f, a).ok, fs |-> f]
      [] op = "validate" -> [ok |-> validate(f, a).ok, fs |-> f]
      [] op = "unpack_to" ->
             unpack_to(f, a, [directory |-> SharedDest(t), meta |-> new_workspace(K_other),
                              input_map |-> NoInputs])
      [] OTHER -> IF get_zipfile(f, a).ok
                  THEN under_guard(f, get_zipfile(f, a).zip, op, SharedDest(t))
                  ELSE Err(f, get_zipfile(f, a).err)

\* the threads that read through the ZipArchive
Reading ==
    { t \in SharedThreads :
         Running(t) /\ Head(thr[t].todo) \in {"extract_file", "extract_dir", "extract_all",
                                               "unpack_code_to", "load_json_from_zip",
                                               "by_name"} }

\* C34: the container is opened at most once, at most one thread reads
\* through it at a time and that thread holds the guard, no thread asks for
\* the guard while it holds it, an operation that has returned has returned
\* what it returns alone and has written the files it writes alone, and
\* every operation a thread called returns.
C34_SharedArchiveIsSafeAndLive ==
    /\ [](/\ arch.opens <= 1
          /\ Cardinality(Reading) <= 1
          /\ \A t \in Reading : arch.owner = t
          /\ \A t \in SharedThreads : ~(At(t, "lock") /\ arch.owner = t)
          /\ \A t \in SharedThreads :
                (thr[t].op # "none" /\ thr[t].todo = <<>>)
                => \E r \in {Alone(SharedFs(FileAt(fs, ValidPath)), arch, thr[t].op, t)} :
                      /\ thr[t].ok = r.ok
                      /\ \A p \in DOMAIN r.fs.files :
                            p \in DOMAIN fs.files /\ fs.files[p].data = r.fs.files[p].data)
    /\ \A t \in SharedThreads : (thr[t].op # "none") ~> (thr[t].todo = <<>>)

\* two threads have extracted the whole archive, the second having taken
\* the guard while the first was inside its operation
C34_Witness ==
    /\ \A t \in SharedThreads :
          /\ thr[t].op = "extract_all"
          /\ thr[t].todo = <<>>
          /\ thr[t].ok
          /\ is_file(fs, join(SharedDest(t), DATA_PREFIX \o <<"f">>))
          /\ is_file(fs, join(SharedDest(t), CODE_PREFIX \o <<"m">>))
    /\ \E t \in SharedThreads : thr[t].overlapped
    /\ arch.opens = 1
====
